---- MODULE Spec2Model ----
(***************************************************************************)
(* Register monitoring system: threshold validators, status aggregator,    *)
(* register scan/update loop, error recovery.                              *)
(*                                                                         *)
(* Units.  The C code keeps the three readings as 32-bit floats.  Every    *)
(* value the code compares or assigns lies on a decimal grid, so the model *)
(* keeps them as integers on that grid:                                    *)
(*   voltage      millivolts        (3.0f V   = 3000)                      *)
(*   temperature  tenths of a deg C (85.0f C  = 850)                       *)
(*   current      milliamperes      (0.05f A  = 50)                        *)
(* Float rounding is monotone, and the grid points used are further apart  *)
(* than one float ulp, so every comparison has the same outcome.           *)
(***************************************************************************)
EXTENDS Integers, Sequences, FiniteSets, TLC

VARIABLES
    system,          \* the caller-owned monitor_system_t
    counter,         \* read_register's static call counter, kept modulo 16
    call,            \* the last API call: [op, ret] (and its arguments)
    loop,            \* position of continuous_monitoring_loop
    recovery_state   \* the static recovery_system_t of error_recovery.c

vars == <<system, counter, call, loop, recovery_state>>

----------------------------------------------------------------------------
(* monitor.h constants *)

MAX_REGISTERS == 16
MAX_ERRORS == 10
MONITOR_INTERVAL == 1000

MIN_VOLTAGE == 3000
MAX_VOLTAGE == 3600
NOMINAL_VOLTAGE == 3300

TEMP_WARNING == 750
TEMP_CRITICAL == 850
TEMP_NORMAL == 250

MIN_CURRENT == 50
MAX_CURRENT == 2000
NOMINAL_CURRENT == 500

system_status_t ==
    {"STATUS_NORMAL", "STATUS_WARNING", "STATUS_CRITICAL", "STATUS_VOLTAGE_ERROR",
     "STATUS_TEMPERATURE_ERROR", "STATUS_CURRENT_ERROR", "STATUS_COMMUNICATION_ERROR"}

ERROR_NONE == 0
ERROR_VOLTAGE_LOW == 1
ERROR_VOLTAGE_HIGH == 2
ERROR_TEMPERATURE_HIGH == 3
ERROR_CURRENT_LOW == 4
ERROR_CURRENT_HIGH == 5
ERROR_COMMUNICATION == 6
ERROR_TIMEOUT == 7
ERROR_INVALID_DATA == 8

error_code_t == ERROR_NONE .. ERROR_INVALID_DATA

(* an absent system reference *)
NULL == [null |-> TRUE]

----------------------------------------------------------------------------
(* Task 1: threshold validators and status aggregator (pure functions) *)

(* mutant: the upper boundary is rejected *)
validate_voltage_range_excl_max(voltage) ==
    IF voltage < MIN_VOLTAGE THEN FALSE
    ELSE IF voltage >= MAX_VOLTAGE THEN FALSE
    ELSE TRUE

validate_voltage_range(voltage) ==
    IF voltage < MIN_VOLTAGE THEN FALSE
    ELSE IF voltage > MAX_VOLTAGE THEN FALSE
    ELSE TRUE

(* mutant: a lower bound is added *)
validate_temperature_range_lower_bound(temperature) ==
    IF temperature > TEMP_CRITICAL THEN FALSE
    ELSE IF temperature < 0 THEN FALSE
    ELSE TRUE

validate_temperature_range(temperature) ==
    IF temperature > TEMP_CRITICAL THEN FALSE
    ELSE IF temperature > TEMP_WARNING THEN TRUE
    ELSE TRUE

(* mutant: the lower boundary is rejected *)
validate_current_range_excl_min(current) ==
    IF current < 0 THEN FALSE
    ELSE IF current <= MIN_CURRENT THEN FALSE
    ELSE IF current > MAX_CURRENT THEN FALSE
    ELSE TRUE

validate_current_range(current) ==
    IF current < 0 THEN FALSE
    ELSE IF current < MIN_CURRENT THEN FALSE
    ELSE IF current > MAX_CURRENT THEN FALSE
    ELSE TRUE

(* mutant: a current outside its range is reported as a current error *)
determine_system_status_current_error(voltage, temperature, current) ==
    LET voltage_ok == (voltage >= MIN_VOLTAGE /\ voltage <= MAX_VOLTAGE)
        current_ok == (current >= MIN_CURRENT /\ current <= MAX_CURRENT /\ current >= 0)
    IN  IF temperature > TEMP_CRITICAL THEN "STATUS_CRITICAL"
        ELSE IF ~voltage_ok THEN "STATUS_VOLTAGE_ERROR"
        ELSE IF ~current_ok THEN "STATUS_CURRENT_ERROR"
        ELSE IF temperature > TEMP_WARNING THEN "STATUS_WARNING"
        ELSE "STATUS_NORMAL"

(* mutant: the voltage check is made before the critical-temperature check *)
determine_system_status_voltage_first(voltage, temperature, current) ==
    LET voltage_ok == (voltage >= MIN_VOLTAGE /\ voltage <= MAX_VOLTAGE)
        current_ok == (current >= MIN_CURRENT /\ current <= MAX_CURRENT /\ current >= 0)
    IN  IF ~voltage_ok THEN "STATUS_VOLTAGE_ERROR"
        ELSE IF temperature > TEMP_CRITICAL THEN "STATUS_CRITICAL"
        ELSE IF ~current_ok THEN
            (IF current < 0 THEN "STATUS_CRITICAL" ELSE "STATUS_WARNING")
        ELSE IF temperature > TEMP_WARNING THEN "STATUS_WARNING"
        ELSE "STATUS_NORMAL"

determine_system_status(voltage, temperature, current) ==
    LET voltage_ok == (voltage >= MIN_VOLTAGE /\ voltage <= MAX_VOLTAGE)
        current_ok == (current >= MIN_CURRENT /\ current <= MAX_CURRENT /\ current >= 0)
    IN  IF temperature > TEMP_CRITICAL THEN "STATUS_CRITICAL"
        ELSE IF ~voltage_ok THEN "STATUS_VOLTAGE_ERROR"
        ELSE IF ~current_ok THEN
            (IF current < 0 THEN "STATUS_CRITICAL"
             ELSE IF current < MIN_CURRENT THEN "STATUS_WARNING"
             ELSE "STATUS_WARNING")
        ELSE IF temperature > TEMP_WARNING THEN "STATUS_WARNING"
        ELSE IF voltage_ok /\ current_ok /\ temperature <= TEMP_WARNING THEN "STATUS_NORMAL"
        ELSE "STATUS_CRITICAL"

(* mutant: the voltage term is left out *)
check_critical_conditions_no_voltage(sys) ==
    \/ sys = NULL
    \/ sys.status = "STATUS_CRITICAL"
    \/ sys.error_count >= MAX_ERRORS
    \/ ~sys.system_active
    \/ sys.temperature > TEMP_CRITICAL
    \/ sys.current < 0

(* mutant: the negative-current term is left out *)
check_critical_conditions_no_current(sys) ==
    \/ sys = NULL
    \/ sys.status = "STATUS_CRITICAL"
    \/ sys.error_count >= MAX_ERRORS
    \/ ~sys.system_active
    \/ sys.temperature > TEMP_CRITICAL
    \/ sys.voltage < MIN_VOLTAGE
    \/ sys.voltage > MAX_VOLTAGE

check_critical_conditions(sys) ==
    IF sys = NULL THEN TRUE ELSE
    LET critical_status == (sys.status = "STATUS_CRITICAL")
        high_error_count == (sys.error_count >= MAX_ERRORS)
        system_inactive == (~sys.system_active)
        critical_temperature == (sys.temperature > TEMP_CRITICAL)
        voltage_out_of_range == (sys.voltage < MIN_VOLTAGE \/ sys.voltage > MAX_VOLTAGE)
        current_negative == (sys.current < 0)
    IN  IF critical_status \/ high_error_count \/ system_inactive
           \/ critical_temperature \/ voltage_out_of_range \/ current_negative
        THEN TRUE
        ELSE FALSE

----------------------------------------------------------------------------
(* utility functions: initialisation and the simulated hardware *)

base_addr == 1073741824          \* 0x40000000
base_value == 305419896          \* 0x12345678
init_expected_min == 268435456   \* 0x10000000
init_expected_max == 536870912   \* 0x20000000

reg_names == <<"CTRL_REG", "STATUS_REG", "DATA_REG", "CONFIG_REG">>

(* counter is uint32 and wraps at 2^32, a multiple of 16: only counter % 16 *)
(* is ever observed, so the model keeps the counter modulo 16.              *)
read_register_counter(cnt) == (cnt + 1) % 16

(* mutant: the variation is taken from the counter before its increment *)
read_register_stale_counter(cnt) ==
    LET variation == (cnt % 16) * 16
    IN  base_value + variation

(* mutant: the variation steps by 0x01000000 and leaves the init range *)
read_register_coarse(cnt) ==
    LET variation == (read_register_counter(cnt) % 16) * 16777216
    IN  base_value + variation

read_register(cnt) ==
    LET variation == (read_register_counter(cnt) % 16) * 16
    IN  base_value + variation

(* mutant: the register addresses are one byte apart *)
init_monitor_system_byte_stride(sys) ==
    [voltage |-> NOMINAL_VOLTAGE,
     temperature |-> TEMP_NORMAL,
     current |-> NOMINAL_CURRENT,
     status |-> "STATUS_NORMAL",
     error_count |-> 0,
     system_active |-> TRUE,
     num_registers |-> 4,
     registers |-> [i \in 0..3 |->
        [address |-> base_addr + i,
         value |-> base_value + i,
         expected_min |-> init_expected_min,
         expected_max |-> init_expected_max,
         is_valid |-> TRUE,
         name |-> reg_names[i + 1]]]]

init_monitor_system(sys) ==
    [voltage |-> NOMINAL_VOLTAGE,
     temperature |-> TEMP_NORMAL,
     current |-> NOMINAL_CURRENT,
     status |-> "STATUS_NORMAL",
     error_count |-> 0,
     system_active |-> TRUE,
     num_registers |-> 4,
     registers |-> [i \in 0..3 |->
        [address |-> base_addr + (i * 4),
         value |-> base_value + i,
         expected_min |-> init_expected_min,
         expected_max |-> init_expected_max,
         is_valid |-> TRUE,
         name |-> reg_names[i + 1]]]]

(* mutant: cleanup also forces the status *)
cleanup_monitor_system_critical(sys) ==
    [sys EXCEPT !.system_active = FALSE, !.status = "STATUS_CRITICAL"]

cleanup_monitor_system(sys) == [sys EXCEPT !.system_active = FALSE]

(* mutant: the upper bound is not checked *)
validate_register_no_max(address, value, min, max) ==
    IF value < min THEN FALSE
    ELSE TRUE

validate_register(address, value, min, max) ==
    IF value < min THEN FALSE
    ELSE IF value > max THEN FALSE
    ELSE TRUE

----------------------------------------------------------------------------
(* Task 2: register scan / update *)

(* The for loop of scan_all_registers from index i on.  A failing entry    *)
(* takes the else branch, which ends in `continue`; the "control register  *)
(* failed" break after the if/else is therefore only reached by an entry   *)
(* that passed.  reads counts the read_register calls.                     *)
RECURSIVE scan_loop(_, _, _, _, _)
scan_loop(sys, cnt, i, valid_count, reads) ==
    IF ~(i < sys.num_registers)
    THEN [system |-> sys, counter |-> cnt, ret |-> valid_count, reads |-> reads]
    ELSE
        LET value == read_register(cnt)
            cnt1 == read_register_counter(cnt)
            s1 == [sys EXCEPT !.registers[i].value = value]
            r == s1.registers[i]
        IN  IF validate_register(r.address, value, r.expected_min, r.expected_max)
            THEN
                LET s2 == [s1 EXCEPT !.registers[i].is_valid = TRUE]
                IN  IF i = 0 /\ ~s2.registers[i].is_valid
                    THEN [system |-> s2, counter |-> cnt1,
                          ret |-> valid_count + 1, reads |-> reads + 1]
                    ELSE scan_loop(s2, cnt1, i + 1, valid_count + 1, reads + 1)
            ELSE
                LET s2 == [s1 EXCEPT !.registers[i].is_valid = FALSE,
                                     !.error_count = @ + 1]
                IN  scan_loop(s2, cnt1, i + 1, valid_count, reads + 1)

(* mutant: an absent system is reported as a scan with no valid register *)
scan_all_registers_null_zero(sys, cnt) ==
    IF sys = NULL
    THEN [system |-> sys, counter |-> cnt, ret |-> 0, reads |-> 0]
    ELSE scan_loop(sys, cnt, 0, 0, 0)

scan_all_registers(sys, cnt) ==
    IF sys = NULL
    THEN [system |-> sys, counter |-> cnt, ret |-> -1, reads |-> 0]
    ELSE scan_loop(sys, cnt, 0, 0, 0)

RECURSIVE count_loop(_, _, _)
count_loop(sys, i, count) ==
    IF ~(i < sys.num_registers) THEN count
    ELSE count_loop(sys, i + 1, IF sys.registers[i].is_valid THEN count + 1 ELSE count)

(* mutant: the control register is not counted *)
count_valid_registers_skip_first(sys) ==
    IF sys = NULL THEN 0 ELSE count_loop(sys, 1, 0)

count_valid_registers(sys) ==
    IF sys = NULL THEN 0 ELSE count_loop(sys, 0, 0)

RECURSIVE update_loop(_, _, _)
update_loop(sys, cnt, i) ==
    IF ~(i < sys.num_registers)
    THEN [system |-> sys, counter |-> cnt]
    ELSE
        LET new_value == read_register(cnt)
            r == sys.registers[i]
            s1 == [sys EXCEPT !.registers[i].value = new_value,
                              !.registers[i].is_valid =
                                  validate_register(r.address, new_value,
                                                    r.expected_min, r.expected_max)]
        IN  update_loop(s1, read_register_counter(cnt), i + 1)

(* mutant: every update is counted as an error *)
update_all_registers_counting(sys, cnt) ==
    IF sys = NULL
    THEN [system |-> sys, counter |-> cnt]
    ELSE
        LET u == update_loop(sys, cnt, 0)
        IN  [system |-> [u.system EXCEPT
                            !.status = determine_system_status(u.system.voltage,
                                            u.system.temperature, u.system.current),
                            !.error_count = @ + 1],
             counter |-> u.counter]

(* mutant: the status is not recomputed *)
update_all_registers_no_status(sys, cnt) ==
    IF sys = NULL
    THEN [system |-> sys, counter |-> cnt]
    ELSE update_loop(sys, cnt, 0)

update_all_registers(sys, cnt) ==
    IF sys = NULL
    THEN [system |-> sys, counter |-> cnt]
    ELSE
        LET u == update_loop(sys, cnt, 0)
        IN  [system |-> [u.system EXCEPT !.status =
                            determine_system_status(u.system.voltage,
                                                    u.system.temperature,
                                                    u.system.current)],
             counter |-> u.counter]

----------------------------------------------------------------------------
(* Task 5: error classification and recovery; Task 4: failure injection *)

(* mutant: no default branch, an undefined code yields the empty string *)
get_error_message_no_default(error_code) ==
    CASE error_code = ERROR_NONE -> "No error"
      [] error_code = ERROR_VOLTAGE_LOW -> "Voltage below minimum threshold"
      [] error_code = ERROR_VOLTAGE_HIGH -> "Voltage above maximum threshold"
      [] error_code = ERROR_TEMPERATURE_HIGH -> "Temperature exceeds critical threshold"
      [] error_code = ERROR_CURRENT_LOW -> "Current consumption too low"
      [] error_code = ERROR_CURRENT_HIGH -> "Current consumption too high"
      [] error_code = ERROR_COMMUNICATION -> "Communication interface failure"
      [] error_code = ERROR_TIMEOUT -> "Operation timeout"
      [] error_code = ERROR_INVALID_DATA -> "Invalid or corrupted data"
      [] OTHER -> ""

get_error_message(error_code) ==
    CASE error_code = ERROR_NONE -> "No error"
      [] error_code = ERROR_VOLTAGE_LOW -> "Voltage below minimum threshold"
      [] error_code = ERROR_VOLTAGE_HIGH -> "Voltage above maximum threshold"
      [] error_code = ERROR_TEMPERATURE_HIGH -> "Temperature exceeds critical threshold"
      [] error_code = ERROR_CURRENT_LOW -> "Current consumption too low"
      [] error_code = ERROR_CURRENT_HIGH -> "Current consumption too high"
      [] error_code = ERROR_COMMUNICATION -> "Communication interface failure"
      [] error_code = ERROR_TIMEOUT -> "Operation timeout"
      [] error_code = ERROR_INVALID_DATA -> "Invalid or corrupted data"
      [] OTHER -> "Unknown error"

(* mutant: success is reported without correcting the reading *)
attempt_error_recovery_uncorrected(sys, cnt, error_code) ==
    IF sys = NULL THEN [system |-> sys, counter |-> cnt, ret |-> FALSE]
    ELSE IF error_code = ERROR_INVALID_DATA
    THEN LET u == update_all_registers(sys, cnt)
         IN  [system |-> u.system, counter |-> u.counter, ret |-> TRUE]
    ELSE [system |-> sys, counter |-> cnt, ret |-> (error_code \in error_code_t)]

attempt_error_recovery(sys, cnt, error_code) ==
    IF sys = NULL THEN [system |-> sys, counter |-> cnt, ret |-> FALSE]
    ELSE
    CASE error_code = ERROR_VOLTAGE_LOW ->
            LET s == [sys EXCEPT !.voltage = MIN_VOLTAGE + 100]
            IN  [system |-> s, counter |-> cnt, ret |-> (s.voltage >= MIN_VOLTAGE)]
      [] error_code = ERROR_VOLTAGE_HIGH ->
            LET s == [sys EXCEPT !.voltage = MAX_VOLTAGE - 100]
            IN  [system |-> s, counter |-> cnt, ret |-> (s.voltage <= MAX_VOLTAGE)]
      [] error_code = ERROR_TEMPERATURE_HIGH ->
            LET s == [sys EXCEPT !.temperature = TEMP_CRITICAL - 50]
            IN  [system |-> s, counter |-> cnt, ret |-> (s.temperature <= TEMP_CRITICAL)]
      [] error_code = ERROR_CURRENT_LOW ->
            LET s == [sys EXCEPT !.current = MIN_CURRENT + 50]
            IN  [system |-> s, counter |-> cnt, ret |-> (s.current >= MIN_CURRENT)]
      [] error_code = ERROR_CURRENT_HIGH ->
            LET s == [sys EXCEPT !.current = MAX_CURRENT - 100]
            IN  [system |-> s, counter |-> cnt, ret |-> (s.current <= MAX_CURRENT)]
      [] error_code = ERROR_COMMUNICATION ->
            [system |-> sys, counter |-> cnt, ret |-> TRUE]
      [] error_code = ERROR_TIMEOUT ->
            [system |-> sys, counter |-> cnt, ret |-> TRUE]
      [] error_code = ERROR_INVALID_DATA ->
            LET u == update_all_registers(sys, cnt)
            IN  [system |-> u.system, counter |-> u.counter, ret |-> TRUE]
      [] error_code = ERROR_NONE ->
            [system |-> sys, counter |-> cnt, ret |-> TRUE]
      [] OTHER ->
            [system |-> sys, counter |-> cnt, ret |-> FALSE]

simulate_hardware_failure(sys, error_type) ==
    IF sys = NULL THEN [system |-> sys, ret |-> FALSE]
    ELSE
    CASE error_type = ERROR_VOLTAGE_LOW ->
            [system |-> [sys EXCEPT !.voltage = MIN_VOLTAGE - 100,
                                    !.error_count = @ + 1], ret |-> TRUE]
      [] error_type = ERROR_VOLTAGE_HIGH ->
            [system |-> [sys EXCEPT !.voltage = MAX_VOLTAGE + 100,
                                    !.error_count = @ + 1], ret |-> TRUE]
      [] error_type = ERROR_TEMPERATURE_HIGH ->
            [system |-> [sys EXCEPT !.temperature = TEMP_CRITICAL + 50,
                                    !.error_count = @ + 1], ret |-> TRUE]
      [] error_type = ERROR_CURRENT_LOW ->
            [system |-> [sys EXCEPT !.current = MIN_CURRENT - 10,
                                    !.error_count = @ + 1], ret |-> TRUE]
      [] error_type = ERROR_CURRENT_HIGH ->
            [system |-> [sys EXCEPT !.current = MAX_CURRENT + 100,
                                    !.error_count = @ + 1], ret |-> TRUE]
      [] OTHER -> [system |-> sys, ret |-> FALSE]

(* mutant: the shutdown forces the status but leaves the system active *)
emergency_shutdown_stays_active(sys) ==
    IF sys = NULL THEN sys
    ELSE [sys EXCEPT !.status = "STATUS_CRITICAL"]

emergency_shutdown(sys) ==
    IF sys = NULL THEN sys
    ELSE [sys EXCEPT !.system_active = FALSE, !.status = "STATUS_CRITICAL"]

----------------------------------------------------------------------------
(* error_recovery.c: error log, graceful degradation, comprehensive        *)
(* recovery.  A log entry's timestamp (wall clock) is not modelled.        *)

MAX_RETRY_ATTEMPTS == 3
RETRY_DELAY_MS == 500
ERROR_LOG_SIZE == 100

init_recovery_system(sys, rec) ==
    IF sys = NULL THEN [recovery_state |-> rec, ret |-> FALSE]
    ELSE [recovery_state |->
            [error_log |-> <<>>, log_count |-> 0, total_errors |-> 0,
             successful_recoveries |-> 0, degraded_mode |-> FALSE,
             degradation_level |-> 0],
          ret |-> TRUE]

(* mutant: a full log is not shifted, its newest entry is overwritten *)
log_recovery_error_no_shift(rec, error_code, description, retry_count, recovery_successful) ==
    LET shifted == IF rec.log_count >= ERROR_LOG_SIZE
                   THEN [rec EXCEPT !.error_log = SubSeq(@, 1, ERROR_LOG_SIZE - 1),
                                    !.log_count = ERROR_LOG_SIZE - 1]
                   ELSE rec
        entry == [error_code |-> error_code, retry_count |-> retry_count,
                  recovery_successful |-> recovery_successful,
                  description |-> description]
    IN  [shifted EXCEPT
            !.error_log = Append(@, entry),
            !.log_count = @ + 1,
            !.total_errors = @ + 1,
            !.successful_recoveries = IF recovery_successful THEN @ + 1 ELSE @]

log_recovery_error(rec, error_code, description, retry_count, recovery_successful) ==
    LET shifted == IF rec.log_count >= ERROR_LOG_SIZE
                   THEN [rec EXCEPT !.error_log = SubSeq(@, 2, ERROR_LOG_SIZE),
                                    !.log_count = ERROR_LOG_SIZE - 1]
                   ELSE rec
        entry == [error_code |-> error_code, retry_count |-> retry_count,
                  recovery_successful |-> recovery_successful,
                  description |-> description]
    IN  [shifted EXCEPT
            !.error_log = Append(@, entry),
            !.log_count = @ + 1,
            !.total_errors = @ + 1,
            !.successful_recoveries = IF recovery_successful THEN @ + 1 ELSE @]

(* mutant: the marginal windows are 5% wide and leave the middle free *)
health_score_narrow_margin(sys) ==
    LET error_penalty == sys.error_count * 10
        voltage_penalty ==
            IF sys.voltage < MIN_VOLTAGE \/ sys.voltage > MAX_VOLTAGE THEN 30
            ELSE IF sys.voltage * 100 < MIN_VOLTAGE * 105 \/ sys.voltage * 100 > MAX_VOLTAGE * 95
                 THEN 15
            ELSE 0
        temperature_penalty ==
            IF sys.temperature > TEMP_CRITICAL THEN 40
            ELSE IF sys.temperature > TEMP_WARNING THEN 20
            ELSE 0
        current_penalty ==
            IF sys.current < MIN_CURRENT \/ sys.current > MAX_CURRENT THEN 25 ELSE 0
        score == 100 - (error_penalty + voltage_penalty + temperature_penalty + current_penalty)
    IN  IF score < 0 THEN 0 ELSE score

(* MIN_VOLTAGE * 1.1f and MAX_VOLTAGE * 0.9f are compared after scaling    *)
(* both sides by ten; the two windows overlap (3.24 < 3.3), so rounding of *)
(* the float products cannot change the outcome for any in-range voltage.  *)
health_score(sys) ==
    LET error_penalty == sys.error_count * 10
        voltage_penalty ==
            IF sys.voltage < MIN_VOLTAGE \/ sys.voltage > MAX_VOLTAGE THEN 30
            ELSE IF sys.voltage * 10 < MIN_VOLTAGE * 11 \/ sys.voltage * 10 > MAX_VOLTAGE * 9
                 THEN 15
            ELSE 0
        temperature_penalty ==
            IF sys.temperature > TEMP_CRITICAL THEN 40
            ELSE IF sys.temperature > TEMP_WARNING THEN 20
            ELSE 0
        current_penalty ==
            IF sys.current < MIN_CURRENT \/ sys.current > MAX_CURRENT THEN 25 ELSE 0
        score == 100 - (error_penalty + voltage_penalty + temperature_penalty + current_penalty)
    IN  IF score < 0 THEN 0 ELSE score

(* mutant: the thresholds 60 and 30 are exclusive *)
degradation_level_of_exclusive(score) ==
    IF score >= 80 THEN 0
    ELSE IF score > 60 THEN 1
    ELSE IF score > 30 THEN 2
    ELSE 3

degradation_level_of(score) ==
    IF score >= 80 THEN 0
    ELSE IF score >= 60 THEN 1
    ELSE IF score >= 30 THEN 2
    ELSE 3

degradation_message(level) ==
    CASE level = 0 -> "System returned to normal operation"
      [] level = 1 -> "Minor degradation activated"
      [] level = 2 -> "Major degradation activated"
      [] OTHER -> "Critical degradation activated"

(* mutant: the level is stored and logged even when it did not change *)
graceful_degradation_always_logs(sys, rec) ==
    IF sys = NULL THEN rec
    ELSE
        LET new_degradation_level == degradation_level_of(health_score(sys))
        IN  log_recovery_error(
                [rec EXCEPT !.degradation_level = new_degradation_level,
                            !.degraded_mode = (new_degradation_level > 0)],
                ERROR_NONE, degradation_message(new_degradation_level), 0, TRUE)

graceful_degradation(sys, rec) ==
    IF sys = NULL THEN rec
    ELSE
        LET new_degradation_level == degradation_level_of(health_score(sys))
        IN  IF new_degradation_level # rec.degradation_level
            THEN log_recovery_error(
                    [rec EXCEPT !.degradation_level = new_degradation_level,
                                !.degraded_mode = (new_degradation_level > 0)],
                    ERROR_NONE, degradation_message(new_degradation_level), 0, TRUE)
            ELSE rec

(* Phase 1 of comprehensive_error_recovery: the immediate response *)
immediate_response(sys, error_code) ==
    CASE error_code = ERROR_TEMPERATURE_HIGH -> [sys EXCEPT !.temperature = @ - 100]
      [] error_code = ERROR_VOLTAGE_LOW -> [sys EXCEPT !.voltage = MIN_VOLTAGE + 100]
      [] error_code = ERROR_VOLTAGE_HIGH -> [sys EXCEPT !.voltage = MAX_VOLTAGE - 100]
      [] error_code = ERROR_CURRENT_HIGH -> [sys EXCEPT !.current = MAX_CURRENT - 100]
      [] OTHER -> sys

(* Phase 2: the for loop over recovery_attempts, from recovery_attempts on *)
RECURSIVE retry_phase(_, _, _, _)
retry_phase(sys, cnt, error_code, recovery_attempts) ==
    IF ~(recovery_attempts <= MAX_RETRY_ATTEMPTS)
    THEN [system |-> sys, counter |-> cnt, recovery_successful |-> FALSE,
          recovery_attempts |-> recovery_attempts]
    ELSE
        CHOOSE out \in
            { LET status == determine_system_status(a.system.voltage,
                                a.system.temperature, a.system.current)
              IN  IF a.ret /\ (status = "STATUS_NORMAL" \/ status = "STATUS_WARNING")
                  THEN [system |-> a.system, counter |-> a.counter,
                        recovery_successful |-> TRUE,
                        recovery_attempts |-> recovery_attempts]
                  ELSE retry_phase(a.system, a.counter, error_code, recovery_attempts + 1)
              : a \in {attempt_error_recovery(sys, cnt, error_code)} } : TRUE

(* mutant: only levels below 2 count as operational *)
degrade_and_log_strict(p2, rec, error_code) ==
    CHOOSE out \in
        { LET recovery_successful ==
                  IF p2.recovery_successful THEN TRUE
                  ELSE rec3.degradation_level < 2
          IN  [system |-> p2.system,
               counter |-> p2.counter,
               recovery_state |->
                  log_recovery_error(rec3, error_code,
                      <<"Comprehensive recovery for ", get_error_message(error_code)>>,
                      p2.recovery_attempts, recovery_successful),
               ret |-> recovery_successful,
               degradations |-> IF p2.recovery_successful THEN 0 ELSE 1]
          : rec3 \in { IF p2.recovery_successful THEN rec
                       ELSE graceful_degradation(p2.system, rec) } } : TRUE

(* Phase 3 and the final log entry, given the outcome p2 of phase 2; the   *)
(* field degradations counts the calls of graceful_degradation made.       *)
degrade_and_log(p2, rec, error_code) ==
    CHOOSE out \in
        { LET recovery_successful ==
                  IF p2.recovery_successful THEN TRUE
                  ELSE rec3.degradation_level < 3
          IN  [system |-> p2.system,
               counter |-> p2.counter,
               recovery_state |->
                  log_recovery_error(rec3, error_code,
                      <<"Comprehensive recovery for ", get_error_message(error_code)>>,
                      p2.recovery_attempts, recovery_successful),
               ret |-> recovery_successful,
               degradations |-> IF p2.recovery_successful THEN 0 ELSE 1]
          : rec3 \in { IF p2.recovery_successful THEN rec
                       ELSE graceful_degradation(p2.system, rec) } } : TRUE

comprehensive_error_recovery(sys, cnt, rec, error_code) ==
    IF sys = NULL
    THEN [system |-> sys, counter |-> cnt, recovery_state |-> rec, ret |-> FALSE,
          degradations |-> 0]
    ELSE
        CHOOSE out \in
            { degrade_and_log(p2, rec, error_code)
              : p2 \in {retry_phase(immediate_response(sys, error_code), cnt,
                                    error_code, 1)} } : TRUE

(* the state each scenario of simulate_error_scenarios sets up, and the    *)
(* error it then recovers from; scenario 4 makes two recoveries (4 and 5)  *)
scenario_setup(sys, k) ==
    CASE k = 1 -> [sys EXCEPT !.temperature = TEMP_CRITICAL + 50]
      [] k = 2 -> [sys EXCEPT !.voltage = MIN_VOLTAGE - 200]
      [] k = 4 -> [sys EXCEPT !.temperature = TEMP_CRITICAL + 20,
                              !.current = MAX_CURRENT + 300,
                              !.error_count = 8]
      [] OTHER -> sys

scenario_error(k) ==
    CASE k = 1 -> ERROR_TEMPERATURE_HIGH
      [] k = 2 -> ERROR_VOLTAGE_LOW
      [] k = 3 -> ERROR_COMMUNICATION
      [] k = 4 -> ERROR_TEMPERATURE_HIGH
      [] OTHER -> ERROR_CURRENT_HIGH

RECURSIVE run_scenarios(_, _)
run_scenarios(r, k) ==
    IF k > 5 THEN r
    ELSE CHOOSE out \in
            { run_scenarios(x, k + 1)
              : x \in {comprehensive_error_recovery(scenario_setup(r.system, k),
                            r.counter, r.recovery_state, scenario_error(k))} } : TRUE

(* simulate_error_scenarios dereferences system without a NULL check; it   *)
(* is only ever applied to a present system.                               *)
simulate_error_scenarios(sys, cnt, rec) ==
    LET r == run_scenarios([system |-> sys, counter |-> cnt, recovery_state |-> rec,
                            ret |-> FALSE], 1)
    IN  [system |-> r.system, counter |-> r.counter,
         recovery_state |-> r.recovery_state]

----------------------------------------------------------------------------
(* Bounds of the model *)

Spread == 2            \* grid steps explored on each side of a threshold
MaxErrorCount == 12    \* cap of the int error_count (MAX_ERRORS is 10)
MaxRegs == 3           \* largest caller-built register table

Near(x) == {x + d : d \in (0 - Spread) .. Spread}

VoltageInputs ==
    Near(MIN_VOLTAGE) \cup Near(MAX_VOLTAGE) \cup {NOMINAL_VOLTAGE, 0, -1000, 2500, 100000}

TemperatureInputs ==
    Near(TEMP_WARNING) \cup Near(TEMP_CRITICAL) \cup {TEMP_NORMAL, -1000, 800, 900, 2000}

CurrentInputs ==
    Near(0) \cup Near(MIN_CURRENT) \cup Near(MAX_CURRENT) \cup {NOMINAL_CURRENT, -1000, 1000000}

(* static storage of error_recovery.c is zero-initialised *)
recovery_zero ==
    [error_log |-> <<>>, log_count |-> 0, total_errors |-> 0,
     successful_recoveries |-> 0, degraded_mode |-> FALSE, degradation_level |-> 0]

loop_idle ==
    [pc |-> "idle", elapsed |-> 0, duration |-> 0, iteration |-> 0,
     updates |-> 0, exit |-> "none"]

no_call == [op |-> "none", args |-> <<>>, ret |-> FALSE]

(* the system argument of a call: the caller's system or an absent reference *)
Pointers == {"system", "NULL"}

deref(ptr) == IF ptr = "NULL" THEN NULL ELSE system

----------------------------------------------------------------------------
(* ValidatorSpec: the pure functions of Task 1 applied to drawn inputs.     *)
(* The functions keep no state, so a behaviour is one application.         *)

ValidatorInit ==
    /\ system = init_monitor_system(NULL)
    /\ counter = 0
    /\ call = no_call
    /\ loop = loop_idle
    /\ recovery_state = recovery_zero

ValidateVoltageRange ==
    \E v \in VoltageInputs :
        /\ call.op = "none"
        /\ call' = [op |-> "validate_voltage_range", args |-> <<v>>,
                    ret |-> validate_voltage_range(v)]
        /\ UNCHANGED <<system, counter, loop, recovery_state>>

ValidateTemperatureRange ==
    \E t \in TemperatureInputs :
        /\ call.op = "none"
        /\ call' = [op |-> "validate_temperature_range", args |-> <<t>>,
                    ret |-> validate_temperature_range(t)]
        /\ UNCHANGED <<system, counter, loop, recovery_state>>

ValidateCurrentRange ==
    \E c \in CurrentInputs :
        /\ call.op = "none"
        /\ call' = [op |-> "validate_current_range", args |-> <<c>>,
                    ret |-> validate_current_range(c)]
        /\ UNCHANGED <<system, counter, loop, recovery_state>>

DetermineSystemStatus ==
    \E v \in VoltageInputs, t \in TemperatureInputs, c \in CurrentInputs :
        /\ call.op = "none"
        /\ call' = [op |-> "determine_system_status", args |-> <<v, t, c>>,
                    ret |-> determine_system_status(v, t, c)]
        /\ UNCHANGED <<system, counter, loop, recovery_state>>

ValidatorNext ==
    \/ ValidateVoltageRange
    \/ ValidateTemperatureRange
    \/ ValidateCurrentRange
    \/ DetermineSystemStatus

ValidatorSpec == ValidatorInit /\ [][ValidatorNext]_vars

(* C1: determine_system_status returns the result of the priority chain    *)
(* temperature > TEMP_CRITICAL -> CRITICAL; voltage out of range ->        *)
(* VOLTAGE_ERROR; current < 0 -> CRITICAL; current out of range ->         *)
(* WARNING; temperature > TEMP_WARNING -> WARNING; else NORMAL.            *)
PriorityChain(v, t, c) ==
    CASE t > TEMP_CRITICAL -> "STATUS_CRITICAL"
      [] t <= TEMP_CRITICAL /\ (v < MIN_VOLTAGE \/ v > MAX_VOLTAGE) -> "STATUS_VOLTAGE_ERROR"
      [] t <= TEMP_CRITICAL /\ v >= MIN_VOLTAGE /\ v <= MAX_VOLTAGE /\ c < 0 -> "STATUS_CRITICAL"
      [] t <= TEMP_CRITICAL /\ v >= MIN_VOLTAGE /\ v <= MAX_VOLTAGE /\ c >= 0
            /\ (c < MIN_CURRENT \/ c > MAX_CURRENT) -> "STATUS_WARNING"
      [] t <= TEMP_CRITICAL /\ v >= MIN_VOLTAGE /\ v <= MAX_VOLTAGE
            /\ c >= MIN_CURRENT /\ c <= MAX_CURRENT /\ t > TEMP_WARNING -> "STATUS_WARNING"
      [] OTHER -> "STATUS_NORMAL"

C2_VoltageRange ==
    call.op = "validate_voltage_range" =>
        (call.ret <=> (MIN_VOLTAGE <= call.args[1] /\ call.args[1] <= MAX_VOLTAGE))

C2_Witness ==
    /\ call.op = "validate_voltage_range"
    /\ call.args[1] = MAX_VOLTAGE
    /\ call.ret = TRUE

(* C3: validate_temperature_range(t) is false iff t > TEMP_CRITICAL; there *)
(* is no lower bound.                                                      *)
C3_TemperatureRange ==
    call.op = "validate_temperature_range" =>
        ((call.ret = FALSE) <=> (call.args[1] > TEMP_CRITICAL))

C3_Witness ==
    /\ call.op = "validate_temperature_range"
    /\ call.args[1] < 0
    /\ call.ret = TRUE

(* C4: validate_current_range(c) is true iff MIN_CURRENT <= c <= MAX_CURRENT *)
C4_CurrentRange ==
    call.op = "validate_current_range" =>
        (call.ret <=> (MIN_CURRENT <= call.args[1] /\ call.args[1] <= MAX_CURRENT))

C4_Witness ==
    /\ call.op = "validate_current_range"
    /\ call.args[1] = MIN_CURRENT
    /\ call.ret = TRUE

----------------------------------------------------------------------------
(* CriticalSpec: check_critical_conditions applied to a caller-built       *)
(* system.  The struct is public and callers write its fields directly     *)
(* (tests/test_validation.c sets error_count and is_valid), so the fields  *)
(* the function reads are drawn from bounded sets.                         *)

CriticalSystems ==
    { [init_monitor_system(NULL) EXCEPT
            !.voltage = v, !.temperature = t, !.current = c,
            !.status = st, !.error_count = e, !.system_active = a] :
        v \in Near(MIN_VOLTAGE) \cup Near(MAX_VOLTAGE) \cup {NOMINAL_VOLTAGE},
        t \in Near(TEMP_CRITICAL) \cup {TEMP_NORMAL},
        c \in Near(0) \cup {NOMINAL_CURRENT},
        st \in system_status_t,
        e \in Near(MAX_ERRORS) \cup {0},
        a \in BOOLEAN }

CriticalInit ==
    /\ system \in CriticalSystems
    /\ counter = 0
    /\ call = no_call
    /\ loop = loop_idle
    /\ recovery_state = recovery_zero

CheckCriticalConditions ==
    \E ptr \in Pointers :
        /\ loop.pc = "idle"
        /\ call' = [op |-> "check_critical_conditions", args |-> <<ptr>>,
                    ret |-> check_critical_conditions(deref(ptr))]
        /\ UNCHANGED <<system, counter, loop, recovery_state>>

CriticalNext == CheckCriticalConditions

CriticalSpec == CriticalInit /\ [][CriticalNext]_vars

(* C5: for a present system check_critical_conditions is true iff one of:  *)
(* status CRITICAL, error_count >= MAX_ERRORS, system inactive,            *)
(* temperature > TEMP_CRITICAL, voltage out of range, current < 0; it is   *)
(* false for a freshly initialised system and leaves the system unchanged. *)
C5_CriticalIff ==
    call.op = "check_critical_conditions" /\ call.args[1] = "system" =>
        /\ call.ret <=>
              \/ system.status = "STATUS_CRITICAL"
              \/ system.error_count >= 10
              \/ system.system_active = FALSE
              \/ system.temperature > TEMP_CRITICAL
              \/ system.voltage < MIN_VOLTAGE
              \/ system.voltage > MAX_VOLTAGE
              \/ system.current < 0
        /\ (system = init_monitor_system(NULL) => call.ret = FALSE)

C5_CriticalConditions ==
    /\ []C5_CriticalIff
    /\ [][call'.op = "check_critical_conditions" => system' = system]_vars

(* the only critical term is a negative current *)
C5_Witness ==
    /\ call.op = "check_critical_conditions"
    /\ call.args[1] = "system"
    /\ call.ret = TRUE
    /\ system.current < 0
    /\ system.status = "STATUS_NORMAL"
    /\ system.error_count = 0
    /\ system.system_active
    /\ system.temperature <= TEMP_CRITICAL
    /\ system.voltage = NOMINAL_VOLTAGE

----------------------------------------------------------------------------
(* Operations on the register table *)

ScanAllRegisters ==
    \E ptr \in Pointers :
        LET r == scan_all_registers(deref(ptr), counter)
        IN  /\ loop.pc = "idle"
            /\ ptr = "system" => r.system.error_count <= MaxErrorCount
            /\ system' = IF ptr = "NULL" THEN system ELSE r.system
            /\ counter' = r.counter
            /\ call' = [op |-> "scan_all_registers", args |-> <<ptr>>,
                        ret |-> r.ret, reads |-> r.reads]
            /\ UNCHANGED <<loop, recovery_state>>

UpdateAllRegisters ==
    \E ptr \in Pointers :
        LET u == update_all_registers(deref(ptr), counter)
        IN  /\ loop.pc = "idle"
            /\ system' = IF ptr = "NULL" THEN system ELSE u.system
            /\ counter' = u.counter
            /\ call' = [op |-> "update_all_registers", args |-> <<ptr>>, ret |-> FALSE]
            /\ UNCHANGED <<loop, recovery_state>>

CountValidRegisters ==
    \E ptr \in Pointers :
        /\ loop.pc = "idle"
        /\ call' = [op |-> "count_valid_registers", args |-> <<ptr>>,
                    ret |-> count_valid_registers(deref(ptr))]
        /\ UNCHANGED <<system, counter, loop, recovery_state>>

----------------------------------------------------------------------------
(* ScanSpec: scan, update and count on a caller-built register table.      *)
(* init_monitor_system only ever installs the range                        *)
(* [0x10000000, 0x20000000], which every simulated read satisfies; a table *)
(* with other ranges is one the caller filled in.  The two other ranges    *)
(* split the sixteen read values: the first rejects the upper seven        *)
(* (value > max), the second the lower nine (value < min).                 *)

RegisterRanges ==
    { <<init_expected_min, init_expected_max>>,
      <<init_expected_min, base_value + 135>>,
      <<base_value + 136, init_expected_max>> }

ScanSystems ==
    UNION { { [init_monitor_system(NULL) EXCEPT
                    !.num_registers = n,
                    !.registers = [i \in 0 .. (n - 1) |->
                        [address |-> base_addr + (i * 4),
                         value |-> base_value + i,
                         expected_min |-> rg[i][1],
                         expected_max |-> rg[i][2],
                         is_valid |-> TRUE,
                         name |-> "REG"]]] :
                rg \in [0 .. (n - 1) -> RegisterRanges] } : n \in 1 .. MaxRegs }

ScanInit ==
    /\ system \in ScanSystems
    /\ counter = 0
    /\ call = no_call
    /\ loop = loop_idle
    /\ recovery_state = recovery_zero

ScanNext ==
    \/ ScanAllRegisters
    \/ UpdateAllRegisters
    \/ CountValidRegisters

ScanSpec == ScanInit /\ [][ScanNext]_vars

InRange(r) == r.expected_min <= r.value /\ r.value <= r.expected_max

(* the value the k-th read_register call after counter value cnt returns *)
ReadAfter(cnt, k) == base_value + (((cnt + k) % 16) * 16)

PresentScan == call'.op = "scan_all_registers" /\ call'.args[1] = "system"

(* C6 (as claimed): when register 0 fails validation the scan stops after  *)
(* that one read and leaves registers 1..num_registers-1 untouched; when   *)
(* register 0 passes, every register is read whatever the others do.       *)
C6_ControlRegisterAbort ==
    [][PresentScan =>
        /\ (~system'.registers[0].is_valid =>
                /\ call'.reads = 1
                /\ \A i \in 1 .. (system.num_registers - 1) :
                        system'.registers[i] = system.registers[i])
        /\ (system'.registers[0].is_valid => call'.reads = system.num_registers)
      ]_vars

(* C7: a scan of a present system stores the value read in each entry it   *)
(* scans, sets is_valid to expected_min <= value <= expected_max, returns  *)
(* the number of entries that passed, adds the number that failed to       *)
(* error_count, and returns a value in 0 .. num_registers.                 *)
C7_ScanEffect ==
    [][PresentScan =>
        LET n == system.num_registers
            scanned == 0 .. (call'.reads - 1)
            passed == {i \in scanned : system'.registers[i].is_valid}
        IN  /\ \A i \in scanned :
                  /\ system'.registers[i].value = ReadAfter(counter, i + 1)
                  /\ system'.registers[i].is_valid = InRange(system'.registers[i])
            /\ \A i \in (0 .. (n - 1)) \ scanned :
                  system'.registers[i] = system.registers[i]
            /\ call'.ret = Cardinality(passed)
            /\ system'.error_count = system.error_count + (call'.reads - call'.ret)
            /\ 0 <= call'.ret /\ call'.ret <= n
            /\ system'.num_registers = n
      ]_vars

(* a scan in which one entry failed above its maximum, one failed below    *)
(* its minimum and one passed                                              *)
C7_Witness ==
    /\ call.op = "scan_all_registers"
    /\ call.args[1] = "system"
    /\ system.num_registers = 3
    /\ call.ret = 1
    /\ system.error_count >= 2
    /\ \E i, j \in 0 .. 2 :
          /\ system.registers[i].value < system.registers[i].expected_min
          /\ system.registers[j].value > system.registers[j].expected_max
          /\ ~system.registers[i].is_valid
          /\ ~system.registers[j].is_valid

----------------------------------------------------------------------------
(* Spec: a monitoring session.  The program is single-threaded: while      *)
(* continuous_monitoring_loop runs, no other operation is called.          *)

MaxDuration == 2       \* largest duration_seconds passed to the loop
MaxTick == 2           \* most seconds one delay_ms(MONITOR_INTERVAL) takes
MaxTotalErrors == 12   \* cap of the int total_errors
MaxFailures == 2       \* most hardware failures injected in one session

ErrorCodeInputs == error_code_t \cup {999, -1}

DurationInputs == -1 .. MaxDuration

Init ==
    /\ system = init_monitor_system(NULL)
    /\ counter = 0
    /\ call = no_call
    /\ loop = loop_idle
    /\ recovery_state = recovery_zero

InitMonitorSystem ==
    /\ loop.pc = "idle"
    /\ system' = init_monitor_system(system)
    /\ call' = [op |-> "init_monitor_system", args |-> <<"system">>, ret |-> FALSE]
    /\ UNCHANGED <<counter, loop, recovery_state>>

CleanupMonitorSystem ==
    /\ loop.pc = "idle"
    /\ system' = cleanup_monitor_system(system)
    /\ call' = [op |-> "cleanup_monitor_system", args |-> <<"system">>, ret |-> FALSE]
    /\ UNCHANGED <<counter, loop, recovery_state>>

EmergencyShutdown ==
    /\ loop.pc = "idle"
    /\ system' = emergency_shutdown(system)
    /\ call' = [op |-> "emergency_shutdown", args |-> <<"system">>, ret |-> FALSE]
    /\ UNCHANGED <<counter, loop, recovery_state>>

AttemptErrorRecovery ==
    \E ptr \in Pointers, error_code \in ErrorCodeInputs :
        LET a == attempt_error_recovery(deref(ptr), counter, error_code)
        IN  /\ loop.pc = "idle"
            /\ system' = IF ptr = "NULL" THEN system ELSE a.system
            /\ counter' = a.counter
            /\ call' = [op |-> "attempt_error_recovery", args |-> <<ptr>>,
                        ret |-> a.ret]
            /\ UNCHANGED <<loop, recovery_state>>

SimulateHardwareFailureUpTo(cap) ==
    \E ptr \in Pointers, error_type \in ErrorCodeInputs :
        LET f == simulate_hardware_failure(deref(ptr), error_type)
        IN  /\ loop.pc = "idle"
            /\ ptr = "system" => f.system.error_count <= cap
            /\ system' = IF ptr = "NULL" THEN system ELSE f.system
            /\ call' = [op |-> "simulate_hardware_failure", args |-> <<ptr>>,
                        ret |-> f.ret]
            /\ UNCHANGED <<counter, loop, recovery_state>>

SimulateHardwareFailure == SimulateHardwareFailureUpTo(MaxFailures)

InitRecoverySystem ==
    \E ptr \in Pointers :
        LET r == init_recovery_system(deref(ptr), recovery_state)
        IN  /\ loop.pc = "idle"
            /\ recovery_state' = r.recovery_state
            /\ call' = [op |-> "init_recovery_system", args |-> <<ptr>>, ret |-> r.ret]
            /\ UNCHANGED <<system, counter, loop>>

SimulateErrorScenarios ==
    \E r \in {simulate_error_scenarios(system, counter, recovery_state)} :
        /\ loop.pc = "idle"
        /\ r.recovery_state.total_errors <= MaxTotalErrors
        /\ system' = r.system
        /\ counter' = r.counter
        /\ recovery_state' = r.recovery_state
        /\ call' = [op |-> "simulate_error_scenarios", args |-> <<"system">>, ret |-> FALSE]
        /\ UNCHANGED loop

(* continuous_monitoring_loop.  loop.elapsed is time(NULL) - start_time.   *)
(* Only delay_ms(MONITOR_INTERVAL) takes time in the model: it sleeps at   *)
(* least one second, so the clock read at the next loop head is at least   *)
(* one second later.                                                       *)
(* mutant: a zero duration is accepted *)
invalid_loop_parameters_negative_only(sys, duration_seconds) ==
    sys = NULL \/ duration_seconds < 0

(* the parameter check at the head of continuous_monitoring_loop *)
invalid_loop_parameters(sys, duration_seconds) ==
    sys = NULL \/ duration_seconds <= 0

time_limit_reached_late(elapsed, duration_seconds) == elapsed > duration_seconds

time_limit_reached(elapsed, duration_seconds) == elapsed >= duration_seconds

ContinuousMonitoringLoop ==
    \E ptr \in Pointers, duration_seconds \in DurationInputs :
        /\ loop.pc = "idle"
        /\ call' = [op |-> "continuous_monitoring_loop",
                    args |-> <<ptr, duration_seconds>>, ret |-> FALSE]
        /\ loop' = IF invalid_loop_parameters(deref(ptr), duration_seconds)
                   THEN [loop EXCEPT !.exit = "invalid"]
                   ELSE [pc |-> "while", elapsed |-> 0, duration |-> duration_seconds,
                         iteration |-> 0, updates |-> 0, exit |-> "running"]
        /\ UNCHANGED <<system, counter, recovery_state>>

LoopHead ==
    /\ loop.pc = "while"
    /\ loop' = IF ~system.system_active
               THEN [loop EXCEPT !.pc = "idle", !.exit = "inactive"]
               ELSE IF time_limit_reached(loop.elapsed, loop.duration)
               THEN [loop EXCEPT !.pc = "idle", !.exit = "time"]
               ELSE [loop EXCEPT !.pc = "update"]
    /\ UNCHANGED <<system, counter, call, recovery_state>>

LoopUpdate ==
    /\ loop.pc = "update"
    /\ LET u == update_all_registers(system, counter)
       IN  /\ system' = u.system
           /\ counter' = u.counter
    /\ loop' = [loop EXCEPT !.pc = "check", !.updates = @ + 1]
    /\ UNCHANGED <<call, recovery_state>>

LoopCheck ==
    /\ loop.pc = "check"
    /\ loop' = IF check_critical_conditions(system)
               THEN [loop EXCEPT !.pc = "idle", !.exit = "critical"]
               ELSE IF system.error_count >= MAX_ERRORS
               THEN [loop EXCEPT !.pc = "idle", !.exit = "errors"]
               ELSE [loop EXCEPT !.pc = "sleep", !.iteration = @ + 1]
    /\ UNCHANGED <<system, counter, call, recovery_state>>

LoopSleep ==
    \E tick \in 1 .. MaxTick :
        /\ loop.pc = "sleep"
        /\ loop' = [loop EXCEPT !.pc = "while", !.elapsed = @ + tick]
        /\ UNCHANGED <<system, counter, call, recovery_state>>

LoopStep == LoopHead \/ LoopUpdate \/ LoopCheck \/ LoopSleep

Next ==
    \/ InitMonitorSystem
    \/ ScanAllRegisters
    \/ UpdateAllRegisters
    \/ CountValidRegisters
    \/ CheckCriticalConditions
    \/ AttemptErrorRecovery
    \/ SimulateHardwareFailure
    \/ CleanupMonitorSystem
    \/ EmergencyShutdown

Spec == Init /\ [][Next]_vars

(* C8 (as claimed): in every reachable state the stored status equals      *)
(* determine_system_status of the current voltage, temperature, current.   *)
C8_StatusAlwaysDerived ==
    system.status =
        determine_system_status(system.voltage, system.temperature, system.current)

(* C8 (amended): right after init_monitor_system and right after every     *)
(* update_all_registers on a present system the stored status equals       *)
(* determine_system_status of the current readings.                        *)
C8_StatusDerivedAfterUpdate ==
    (call.op \in {"init_monitor_system", "update_all_registers"}
        /\ call.args[1] = "system")
    => system.status =
          determine_system_status(system.voltage, system.temperature, system.current)

(* an update has recomputed the status of a system whose voltage a         *)
(* simulated failure had pushed out of range                               *)
C8_Witness ==
    /\ call.op = "update_all_registers"
    /\ call.args[1] = "system"
    /\ system.voltage > MAX_VOLTAGE
    /\ system.status = "STATUS_VOLTAGE_ERROR"

----------------------------------------------------------------------------
(* RecoverySpec: the error_recovery.c program: failure injection and the   *)
(* error scenarios on one system.                                          *)

InjectHardwareFailure == SimulateHardwareFailureUpTo(MaxErrorCount)

RecoveryNext ==
    \/ InjectHardwareFailure
    \/ InitRecoverySystem
    \/ SimulateErrorScenarios

RecoverySpec == Init /\ [][RecoveryNext]_vars

(* C9 (as claimed): no operation other than init_monitor_system lowers     *)
(* error_count; simulate_hardware_failure adds one for a recognised code   *)
(* and nothing otherwise.                                                  *)
C9_ErrorCountNeverDecreases ==
    [][/\ (call'.op # "init_monitor_system"
              => system'.error_count >= system.error_count)
       /\ (call'.op = "simulate_hardware_failure"
              => system'.error_count =
                    system.error_count + (IF call'.ret = TRUE THEN 1 ELSE 0))
      ]_vars

----------------------------------------------------------------------------
(* LoopSpec: continuous_monitoring_loop on a caller-built system.  The     *)
(* loop is running code of a single-threaded program, so it keeps taking   *)
(* steps: weak fairness of LoopStep.                                       *)

LoopSystems ==
    { [init_monitor_system(NULL) EXCEPT
            !.voltage = v, !.temperature = t, !.current = c,
            !.status = st, !.error_count = e, !.system_active = a] :
        v \in {NOMINAL_VOLTAGE, MIN_VOLTAGE - 100},
        t \in {TEMP_NORMAL, TEMP_CRITICAL + 50},
        c \in {NOMINAL_CURRENT, MAX_CURRENT + 100},
        st \in {"STATUS_NORMAL", "STATUS_CRITICAL"},
        e \in {0, MAX_ERRORS - 1, MAX_ERRORS},
        a \in BOOLEAN }

LoopInit ==
    /\ system \in LoopSystems
    /\ counter = 0
    /\ call = no_call
    /\ loop = loop_idle
    /\ recovery_state = recovery_zero

LoopNext ==
    \/ ContinuousMonitoringLoop
    \/ LoopHead
    \/ LoopUpdate
    \/ LoopCheck
    \/ LoopSleep

LoopSpec == LoopInit /\ [][LoopNext]_vars /\ WF_vars(LoopStep)

CriticalTerms(sys) ==
    \/ sys.status = "STATUS_CRITICAL"
    \/ sys.error_count >= 10
    \/ sys.system_active = FALSE
    \/ sys.temperature > TEMP_CRITICAL
    \/ sys.voltage < MIN_VOLTAGE
    \/ sys.voltage > MAX_VOLTAGE
    \/ sys.current < 0

(* the loop is entered only for a present system and a positive duration *)
C10_Entered ==
    loop.pc # "idle" => call.args[1] = "system" /\ call.args[2] > 0

(* every way out of the loop is one of the claimed stop conditions, and a  *)
(* satisfied stop condition is acted on at once                            *)
C10_Stops ==
    [][/\ (loop.pc # "idle" /\ loop'.pc = "idle") =>
              \/ /\ loop'.exit = "time"
                 /\ loop.pc = "while"
                 /\ loop.elapsed >= loop.duration
              \/ /\ loop'.exit = "critical"
                 /\ loop.pc = "check"
                 /\ CriticalTerms(system)
              \/ /\ loop'.exit = "errors"
                 /\ loop.pc = "check"
                 /\ system.error_count >= 10
              \/ /\ loop'.exit = "inactive"
                 /\ loop.pc = "while"
                 /\ ~system.system_active
       /\ (loop.pc = "while" /\ (loop.elapsed >= loop.duration \/ ~system.system_active))
              => loop'.pc \in {"while", "idle"}
       /\ (loop.pc = "check" /\ (CriticalTerms(system) \/ system.error_count >= 10))
              => loop'.pc \in {"check", "idle"}
      ]_vars

(* an update step is only taken while elapsed < duration_seconds and the   *)
(* system is active                                                        *)
C10_NoLateUpdate ==
    [][loop'.updates > loop.updates
          => loop.elapsed < loop.duration /\ system.system_active]_vars

(* C10: for a present system and duration_seconds > 0 the loop always      *)
(* terminates; it stops at the first of elapsed >= duration_seconds        *)
(* (checked before each update), a critical condition after an update, or  *)
(* error_count >= MAX_ERRORS; it makes no update step once elapsed >=      *)
(* duration_seconds or once the system is inactive.                        *)
C10_LoopTerminates ==
    /\ []C10_Entered
    /\ ((loop.pc # "idle") ~> (loop.pc = "idle"))
    /\ C10_Stops
    /\ C10_NoLateUpdate

(* a loop that ran two full iterations and then stopped at the time limit *)
C10_Witness ==
    /\ call.op = "continuous_monitoring_loop"
    /\ loop.pc = "idle"
    /\ loop.exit = "time"
    /\ loop.updates = 2
    /\ loop.elapsed >= loop.duration

----------------------------------------------------------------------------
(* C11 (as claimed): update_all_registers is the only operation that       *)
(* changes the status field.                                               *)
C11_OnlyUpdateWritesStatus ==
    [][call'.op # "update_all_registers" => system'.status = system.status]_vars

(* C11 (amended): status is written by init_monitor_system (NORMAL),       *)
(* update_all_registers and emergency_shutdown (CRITICAL) only;            *)
(* attempt_error_recovery changes it only by running update_all_registers  *)
(* (ERROR_INVALID_DATA); scan, count, check, simulate_hardware_failure and *)
(* cleanup leave it unchanged.                                             *)
C11_StatusWriters ==
    [][/\ (call'.op \in {"scan_all_registers", "count_valid_registers",
                         "check_critical_conditions", "simulate_hardware_failure",
                         "cleanup_monitor_system"}
              => system'.status = system.status)
       /\ (call'.op = "attempt_error_recovery"
              => \/ system'.status = system.status
                 \/ /\ call'.args[1] = "system"
                    /\ system' = update_all_registers(system, counter).system)
       /\ (call'.op = "emergency_shutdown" => system'.status = "STATUS_CRITICAL")
       /\ (call'.op = "init_monitor_system" => system'.status = "STATUS_NORMAL")
      ]_vars

(* emergency_shutdown has stored CRITICAL over readings whose derived      *)
(* status is NORMAL                                                        *)
C11_Witness ==
    /\ call.op = "emergency_shutdown"
    /\ system.status = "STATUS_CRITICAL"
    /\ determine_system_status(system.voltage, system.temperature, system.current)
          = "STATUS_NORMAL"

----------------------------------------------------------------------------
(* ErrorApiSpec: one call of the Task 5 error functions on a caller-built  *)
(* system, with the error code kept in the call record.                    *)

ErrorApiInit == LoopInit

AttemptErrorRecoveryWithCode ==
    \E ptr \in Pointers, error_code \in ErrorCodeInputs :
        LET a == attempt_error_recovery(deref(ptr), counter, error_code)
        IN  /\ call.op = "none"
            /\ system' = IF ptr = "NULL" THEN system ELSE a.system
            /\ counter' = a.counter
            /\ call' = [op |-> "attempt_error_recovery",
                        args |-> <<ptr, error_code>>, ret |-> a.ret]
            /\ UNCHANGED <<loop, recovery_state>>

GetErrorMessage ==
    \E error_code \in ErrorCodeInputs :
        /\ call.op = "none"
        /\ call' = [op |-> "get_error_message", args |-> <<error_code>>,
                    ret |-> get_error_message(error_code)]
        /\ UNCHANGED <<system, counter, loop, recovery_state>>

ErrorApiNext ==
    \/ AttemptErrorRecoveryWithCode
    \/ GetErrorMessage

ErrorApiSpec == ErrorApiInit /\ [][ErrorApiNext]_vars

(* C12: on a present system attempt_error_recovery sets the targeted       *)
(* reading to its fixed corrected value for the five reading errors and    *)
(* returns true, which is what the bound check of that value gives; the    *)
(* other two readings, error_count and system_active stay as they were; a  *)
(* code outside the enumeration returns false and changes nothing.         *)
C12_RecoveryCorrection ==
    [][(call'.op = "attempt_error_recovery" /\ call'.args[1] = "system") =>
        LET code == call'.args[2]
            Kept(fields) == \A f \in fields : system'[f] = system[f]
        IN  /\ (code = ERROR_VOLTAGE_LOW =>
                  /\ system'.voltage = MIN_VOLTAGE + 100
                  /\ call'.ret = (system'.voltage >= MIN_VOLTAGE)
                  /\ Kept({"temperature", "current"}))
            /\ (code = ERROR_VOLTAGE_HIGH =>
                  /\ system'.voltage = MAX_VOLTAGE - 100
                  /\ call'.ret = (system'.voltage <= MAX_VOLTAGE)
                  /\ Kept({"temperature", "current"}))
            /\ (code = ERROR_TEMPERATURE_HIGH =>
                  /\ system'.temperature = TEMP_CRITICAL - 50
                  /\ call'.ret = (system'.temperature <= TEMP_CRITICAL)
                  /\ Kept({"voltage", "current"}))
            /\ (code = ERROR_CURRENT_LOW =>
                  /\ system'.current = MIN_CURRENT + 50
                  /\ call'.ret = (system'.current >= MIN_CURRENT)
                  /\ Kept({"voltage", "temperature"}))
            /\ (code = ERROR_CURRENT_HIGH =>
                  /\ system'.current = MAX_CURRENT - 100
                  /\ call'.ret = (system'.current <= MAX_CURRENT)
                  /\ Kept({"voltage", "temperature"}))
            /\ (code \in {ERROR_VOLTAGE_LOW, ERROR_VOLTAGE_HIGH, ERROR_TEMPERATURE_HIGH,
                          ERROR_CURRENT_LOW, ERROR_CURRENT_HIGH} =>
                  /\ call'.ret = TRUE
                  /\ Kept({"error_count", "system_active"}))
            /\ (code \notin error_code_t =>
                  /\ call'.ret = FALSE
                  /\ system' = system
                  /\ counter' = counter)
      ]_vars

(* a low-current recovery on a system whose voltage is out of range: the   *)
(* current is corrected, the voltage is still the caller's                 *)
C12_Witness ==
    /\ call.op = "attempt_error_recovery"
    /\ call.args = <<"system", ERROR_CURRENT_LOW>>
    /\ call.ret = TRUE
    /\ system.current = MIN_CURRENT + 50
    /\ system.voltage = MIN_VOLTAGE - 100

(* C14: get_error_message returns a non-empty string for every code: the   *)
(* message of the code for the nine defined codes and "Unknown error" for  *)
(* every other value.                                                      *)
C14_ErrorMessage ==
    call.op = "get_error_message" =>
        /\ call.ret # ""
        /\ (call.args[1] \in error_code_t <=> call.ret # "Unknown error")

(* the message of the out-of-range code 999 *)
C14_Witness ==
    /\ call.op = "get_error_message"
    /\ call.args[1] = 999
    /\ call.ret = "Unknown error"

----------------------------------------------------------------------------
(* C13: with an absent system scan_all_registers returns -1,               *)
(* count_valid_registers 0, check_critical_conditions true and             *)
(* attempt_error_recovery false for every code; none of them changes the   *)
(* caller's system or advances the read counter.                           *)
C13_NullIsFailure ==
    [][(/\ call'.op \in {"scan_all_registers", "count_valid_registers",
                         "check_critical_conditions", "attempt_error_recovery"}
        /\ call'.args[1] = "NULL") =>
        /\ system' = system
        /\ counter' = counter
        /\ (call'.op = "scan_all_registers" => call'.ret = -1)
        /\ (call'.op = "count_valid_registers" => call'.ret = 0)
        /\ (call'.op = "check_critical_conditions" => call'.ret = TRUE)
        /\ (call'.op = "attempt_error_recovery" => call'.ret = FALSE)
      ]_vars

(* a scan of an absent system, made after reads had advanced the counter *)
C13_Witness ==
    /\ call.op = "scan_all_registers"
    /\ call.args[1] = "NULL"
    /\ call.ret = -1
    /\ counter > 0

(* C16: after init_monitor_system there are four registers at 0x40000000,  *)
(* 0x40000004, 0x40000008, 0x4000000C, all valid with values inside their  *)
(* ranges; error_count is 0, the system is active and its status NORMAL.   *)
C16_InitPostcondition ==
    call.op = "init_monitor_system" =>
        /\ system.num_registers = 4
        /\ DOMAIN system.registers = 0 .. 3
        /\ system.registers[0].address = 1073741824
        /\ system.registers[1].address = 1073741828
        /\ system.registers[2].address = 1073741832
        /\ system.registers[3].address = 1073741836
        /\ \A i \in 0 .. 3 :
              /\ system.registers[i].is_valid
              /\ system.registers[i].expected_min <= system.registers[i].value
              /\ system.registers[i].value <= system.registers[i].expected_max
        /\ system.error_count = 0
        /\ system.system_active
        /\ system.status = "STATUS_NORMAL"

(* a system re-initialised after its registers had been read *)
C16_Witness ==
    /\ call.op = "init_monitor_system"
    /\ counter > 0
    /\ system.registers[3].address = 1073741836
    /\ system.registers[3].value = base_value + 3

(* C17: continuous_monitoring_loop with an absent system or with           *)
(* duration_seconds <= 0 returns at once: no update step, no register      *)
(* read, no delay, and the system is left as it was.                       *)
C17_InvalidLoopIsNoOp ==
    [][(/\ loop.pc = "idle"
        /\ call'.op = "continuous_monitoring_loop"
        /\ (call'.args[1] = "NULL" \/ call'.args[2] <= 0)) =>
        /\ system' = system
        /\ counter' = counter
        /\ loop'.pc = "idle"
        /\ loop'.updates = loop.updates
        /\ loop'.elapsed = loop.elapsed
        /\ loop'.iteration = loop.iteration
      ]_vars

(* the loop was called with a present system and a negative duration *)
C17_Witness ==
    /\ call.op = "continuous_monitoring_loop"
    /\ call.args = <<"system", -1>>
    /\ loop.pc = "idle"
    /\ loop.exit = "invalid"

----------------------------------------------------------------------------
(* Two update_all_registers calls in immediate succession: the step from   *)
(* the state the first call left to the state the second call leaves.      *)
ConsecutiveUpdates ==
    /\ call.op = "update_all_registers"
    /\ call.args[1] = "system"
    /\ call'.op = "update_all_registers"
    /\ call'.args[1] = "system"

ValidFlags(sys) == [i \in 0 .. (sys.num_registers - 1) |-> sys.registers[i].is_valid]

(* the sixteen values the simulated read cycles through *)
SimulatedValues == {305419896 + (16 * k) : k \in 0 .. 15}

(* every range of the table gives one verdict on all simulated values *)
SteadyRanges(sys) ==
    \A i \in 0 .. (sys.num_registers - 1) :
        \A v1, v2 \in SimulatedValues :
            (sys.registers[i].expected_min <= v1 /\ v1 <= sys.registers[i].expected_max)
            = (sys.registers[i].expected_min <= v2 /\ v2 <= sys.registers[i].expected_max)

----------------------------------------------------------------------------
(* ShutdownSpec: a session in which the system is deactivated and then     *)
(* used again: initialisation, cleanup, emergency shutdown, the register   *)
(* operations, the critical check and the monitoring loop.                 *)

ShutdownNext ==
    \/ InitMonitorSystem
    \/ CleanupMonitorSystem
    \/ EmergencyShutdown
    \/ ScanAllRegisters
    \/ UpdateAllRegisters
    \/ CountValidRegisters
    \/ CheckCriticalConditions
    \/ ContinuousMonitoringLoop
    \/ LoopHead
    \/ LoopUpdate
    \/ LoopCheck
    \/ LoopSleep

ShutdownSpec == Init /\ [][ShutdownNext]_vars /\ WF_vars(LoopStep)

(* what each operation other than init_monitor_system would leave of an    *)
(* inactive system: still an inactive system                               *)
StaysInactive(sys) ==
    /\ ~scan_all_registers(sys, counter).system.system_active
    /\ ~update_all_registers(sys, counter).system.system_active
    /\ ~cleanup_monitor_system(sys).system_active
    /\ ~emergency_shutdown(sys).system_active
    /\ \A code \in ErrorCodeInputs :
          /\ ~attempt_error_recovery(sys, counter, code).system.system_active
          /\ ~simulate_hardware_failure(sys, code).system.system_active

(* C18: cleanup_monitor_system and emergency_shutdown leave system_active  *)
(* false (emergency_shutdown also status CRITICAL); no operation other     *)
(* than init_monitor_system makes an inactive system active again; on an   *)
(* inactive system check_critical_conditions returns true and              *)
(* continuous_monitoring_loop makes no update step.                        *)
C18_DeactivationTerminal ==
    /\ [][/\ (call'.op \in {"cleanup_monitor_system", "emergency_shutdown"}
                 => ~system'.system_active)
          /\ (call'.op = "emergency_shutdown" => system'.status = "STATUS_CRITICAL")
          /\ ((~system.system_active /\ call'.op # "init_monitor_system")
                 => ~system'.system_active)
          /\ (~system.system_active => loop'.updates <= loop.updates)
         ]_vars
    /\ [](~system.system_active =>
            /\ StaysInactive(system)
            /\ check_critical_conditions(system)
            /\ ((call.op = "check_critical_conditions" /\ call.args[1] = "system")
                    => call.ret = TRUE)
            /\ ((call.op = "continuous_monitoring_loop" /\ loop.exit # "invalid")
                    => loop.updates = 0))

(* the loop was run on a system that emergency_shutdown had deactivated:   *)
(* it left at the loop head without an update                              *)
C18_Witness ==
    /\ call.op = "continuous_monitoring_loop"
    /\ loop.pc = "idle"
    /\ loop.exit = "inactive"
    /\ loop.updates = 0
    /\ ~system.system_active
    /\ system.status = "STATUS_CRITICAL"
    /\ system.temperature = TEMP_NORMAL

----------------------------------------------------------------------------
(* implement_retry_mechanism.  trace has one entry per status check: the   *)
(* status found, the delay_ms made after it (0 for none) and the number of *)
(* attempt_error_recovery calls made after it.                             *)

(* mutant: the last attempt is followed by a backoff and a recovery too *)
retry_follows_always(attempt, max_retries) == attempt <= max_retries

retry_follows(attempt, max_retries) == attempt < max_retries

(* RETRY_DELAY_MS * (1 << attempt) *)
backoff_delay(attempt) == RETRY_DELAY_MS * (2 ^ attempt)

RECURSIVE retry_loop(_, _, _, _, _, _)
retry_loop(sys, cnt, rec, max_retries, attempt, trace) ==
    IF ~(attempt <= max_retries)
    THEN [system |-> sys, counter |-> cnt,
          recovery_state |-> log_recovery_error(rec, ERROR_TIMEOUT,
                                "Maximum retry attempts exceeded", max_retries, FALSE),
          ret |-> FALSE, trace |-> trace]
    ELSE
        LET status == determine_system_status(sys.voltage, sys.temperature, sys.current)
        IN  IF status = "STATUS_CRITICAL" \/ status = "STATUS_VOLTAGE_ERROR"
            THEN
                IF retry_follows(attempt, max_retries)
                THEN
                    LET error == IF status = "STATUS_CRITICAL"
                                 THEN ERROR_TEMPERATURE_HIGH ELSE ERROR_VOLTAGE_LOW
                    IN  CHOOSE out \in
                          { retry_loop(a.system, a.counter,
                                log_recovery_error(rec, error,
                                    "Retry mechanism recovery attempt", attempt + 1, a.ret),
                                max_retries, attempt + 1,
                                Append(trace, [status |-> status,
                                               delay |-> backoff_delay(attempt),
                                               recoveries |-> 1]))
                            : a \in {attempt_error_recovery(sys, cnt, error)} } : TRUE
                ELSE retry_loop(sys, cnt, rec, max_retries, attempt + 1,
                                Append(trace, [status |-> status, delay |-> 0,
                                               recoveries |-> 0]))
            ELSE [system |-> sys, counter |-> cnt,
                  recovery_state |->
                      IF attempt > 0
                      THEN log_recovery_error(rec, ERROR_NONE,
                              "Operation successful after retries", attempt, TRUE)
                      ELSE rec,
                  ret |-> TRUE,
                  trace |-> Append(trace, [status |-> status, delay |-> 0,
                                           recoveries |-> 0])]

(* mutant: the loop makes one attempt fewer *)
implement_retry_mechanism_one_fewer(sys, cnt, rec, max_retries) ==
    IF sys = NULL
    THEN [system |-> sys, counter |-> cnt, recovery_state |-> rec,
          ret |-> FALSE, trace |-> <<>>]
    ELSE retry_loop(sys, cnt, rec, max_retries - 1, 0, <<>>)

implement_retry_mechanism(sys, cnt, rec, max_retries) ==
    IF sys = NULL
    THEN [system |-> sys, counter |-> cnt, recovery_state |-> rec,
          ret |-> FALSE, trace |-> <<>>]
    ELSE retry_loop(sys, cnt, rec, max_retries, 0, <<>>)

----------------------------------------------------------------------------
(* RetrySpec: the retry mechanism and graceful degradation applied, in any *)
(* order, to a caller-built system.                                        *)

MaxRetries == 3        \* largest max_retries passed to the retry mechanism
MaxLogged == 4         \* log entries after which no further call is made

RetryInputs == -1 .. MaxRetries

RetryInit == LoopInit

ImplementRetryMechanism ==
    \E ptr \in Pointers, max_retries \in RetryInputs :
        \E r \in {implement_retry_mechanism(deref(ptr), counter, recovery_state,
                                            max_retries)} :
            /\ recovery_state.total_errors < MaxLogged
            /\ system' = IF ptr = "NULL" THEN system ELSE r.system
            /\ counter' = r.counter
            /\ recovery_state' = r.recovery_state
            /\ call' = [op |-> "implement_retry_mechanism",
                        args |-> <<ptr, max_retries>>, ret |-> r.ret,
                        trace |-> r.trace]
            /\ UNCHANGED loop

GracefulDegradation ==
    \E ptr \in Pointers :
        /\ recovery_state.total_errors < MaxLogged
        /\ recovery_state' = graceful_degradation(deref(ptr), recovery_state)
        /\ call' = [op |-> "graceful_degradation", args |-> <<ptr>>, ret |-> FALSE]
        /\ UNCHANGED <<system, counter, loop>>

RetryNext ==
    \/ ImplementRetryMechanism
    \/ GracefulDegradation

RetrySpec == RetryInit /\ [][RetryNext]_vars

RetryFailed(entry) ==
    entry.status = "STATUS_CRITICAL" \/ entry.status = "STATUS_VOLTAGE_ERROR"

(* C19: on a present system implement_retry_mechanism makes at most        *)
(* max_retries + 1 status checks; it returns true at the first check whose *)
(* status is neither CRITICAL nor VOLTAGE_ERROR; a failed attempt a <      *)
(* max_retries is followed by a delay of 500 ms x 2^a and exactly one      *)
(* attempt_error_recovery; the last failed attempt is followed by neither  *)
(* and the call returns false.                                             *)
C19_RetryMechanism ==
    (call.op = "implement_retry_mechanism" /\ call.args[1] = "system") =>
        LET max_retries == call.args[2]
            n == Len(call.trace)
        IN  /\ n <= max_retries + 1
            /\ \A k \in 1 .. n :
                  LET a == k - 1
                  IN  /\ (~RetryFailed(call.trace[k]) =>
                            /\ k = n
                            /\ call.ret = TRUE
                            /\ call.trace[k].delay = 0
                            /\ call.trace[k].recoveries = 0)
                      /\ ((RetryFailed(call.trace[k]) /\ a < max_retries) =>
                            /\ k < n
                            /\ call.trace[k].delay = 500 * (2 ^ a)
                            /\ call.trace[k].recoveries = 1)
                      /\ ((RetryFailed(call.trace[k]) /\ a >= max_retries) =>
                            /\ k = n
                            /\ call.ret = FALSE
                            /\ call.trace[k].delay = 0
                            /\ call.trace[k].recoveries = 0)
            /\ (call.ret = TRUE => n >= 1 /\ ~RetryFailed(call.trace[n]))
            /\ (call.ret = FALSE => n = (IF max_retries < 0 THEN 0 ELSE max_retries + 1))

(* a call that found a voltage error, backed off 500 ms, recovered once    *)
(* and succeeded at the second check                                       *)
C19_Witness ==
    /\ call.op = "implement_retry_mechanism"
    /\ call.args[1] = "system"
    /\ call.ret = TRUE
    /\ Len(call.trace) = 2
    /\ call.trace[1] = [status |-> "STATUS_VOLTAGE_ERROR", delay |-> 500, recoveries |-> 1]
    /\ system.voltage = MIN_VOLTAGE + 100

(* the health score and its level as the claim states them *)
C20_Score(sys) ==
    LET voltage_penalty ==
            IF sys.voltage < 3000 \/ sys.voltage > 3600 THEN 30
            ELSE IF sys.voltage * 10 < 3000 * 11 \/ sys.voltage * 10 > 3600 * 9 THEN 15
            ELSE 0
        temperature_penalty ==
            IF sys.temperature > 850 THEN 40
            ELSE IF sys.temperature > 750 THEN 20
            ELSE 0
        current_penalty == IF sys.current < 50 \/ sys.current > 2000 THEN 25 ELSE 0
        raw == 100 - (10 * sys.error_count) - voltage_penalty
                   - temperature_penalty - current_penalty
    IN  IF raw > 0 THEN raw ELSE 0

C20_Level(score) ==
    CASE score >= 80 -> 0
      [] score >= 60 /\ score < 80 -> 1
      [] score >= 30 /\ score < 60 -> 2
      [] OTHER -> 3

(* C20: after every graceful_degradation on a present system the stored    *)
(* degradation_level is the level of the health score of that system:      *)
(* 0 from 80, 1 from 60, 2 from 30, else 3.                                *)
C20_DegradationLevel ==
    (call.op = "graceful_degradation" /\ call.args[1] = "system") =>
        recovery_state.degradation_level = C20_Level(C20_Score(system))

(* a degradation call that moved the level to 1 on a health score of      *)
(* exactly 60                                                              *)
C20_Witness ==
    /\ call.op = "graceful_degradation"
    /\ call.args[1] = "system"
    /\ C20_Score(system) = 60
    /\ recovery_state.degradation_level = 1
    /\ recovery_state.degraded_mode

----------------------------------------------------------------------------
(* C25: whenever the readings of a present system make                     *)
(* determine_system_status return CRITICAL or VOLTAGE_ERROR,               *)
(* check_critical_conditions returns true, whatever the stored status,     *)
(* error_count and system_active are.                                      *)
C25_CriticalCoversStatus ==
    (/\ call.op = "check_critical_conditions"
     /\ call.args[1] = "system"
     /\ determine_system_status(system.voltage, system.temperature, system.current)
            \in {"STATUS_CRITICAL", "STATUS_VOLTAGE_ERROR"})
    => call.ret = TRUE

(* a check of an active system with no errors whose stored status is a     *)
(* stale NORMAL while its voltage is above the maximum                     *)
C25_Witness ==
    /\ call.op = "check_critical_conditions"
    /\ call.args[1] = "system"
    /\ call.ret = TRUE
    /\ system.voltage > MAX_VOLTAGE
    /\ system.status = "STATUS_NORMAL"
    /\ system.error_count = 0
    /\ system.system_active
    /\ system.temperature = TEMP_NORMAL
    /\ system.current = NOMINAL_CURRENT

(* C29: determine_system_status returns NORMAL, WARNING, CRITICAL or       *)
(* VOLTAGE_ERROR only, never TEMPERATURE_ERROR, CURRENT_ERROR or           *)
(* COMMUNICATION_ERROR; CRITICAL comes from the critical-temperature or    *)
(* the negative-current branch, never from the final fallback.             *)
C29_StatusRange ==
    call.op = "determine_system_status" =>
        LET v == call.args[1]
            t == call.args[2]
            c == call.args[3]
        IN  /\ call.ret \in {"STATUS_NORMAL", "STATUS_WARNING",
                             "STATUS_CRITICAL", "STATUS_VOLTAGE_ERROR"}
            /\ call.ret \notin {"STATUS_TEMPERATURE_ERROR", "STATUS_CURRENT_ERROR",
                                "STATUS_COMMUNICATION_ERROR"}
            /\ (call.ret = "STATUS_CRITICAL" =>
                    \/ t > TEMP_CRITICAL
                    \/ (v >= MIN_VOLTAGE /\ v <= MAX_VOLTAGE /\ c < 0))

(* an over-current with every other reading in range is classified as a   *)
(* warning                                                                 *)
C29_Witness ==
    /\ call.op = "determine_system_status"
    /\ call.args[1] = NOMINAL_VOLTAGE
    /\ call.args[2] = TEMP_NORMAL
    /\ call.args[3] > MAX_CURRENT
    /\ call.ret = "STATUS_WARNING"

----------------------------------------------------------------------------
(* C26: while continuous_monitoring_loop runs, its update and check steps  *)
(* leave voltage, temperature, current, error_count and system_active      *)
(* unchanged; so the first critical check decides: a loop that passed it   *)
(* finds every later check false and ends by the time limit only, and the  *)
(* "maximum errors reached" exit is never taken.                           *)
C26_ExitFixedByFirstIteration ==
    /\ [][loop.pc # "idle" =>
            /\ system'.voltage = system.voltage
            /\ system'.temperature = system.temperature
            /\ system'.current = system.current
            /\ system'.error_count = system.error_count
            /\ system'.system_active = system.system_active
         ]_vars
    /\ [](loop.exit # "errors")
    /\ []((loop.pc = "check" /\ loop.updates >= 2)
              => ~check_critical_conditions(system))
    /\ []((loop.pc = "idle" /\ loop.exit \in {"critical", "inactive"})
              => loop.iteration = 0 /\ loop.updates <= 1)
    /\ []((loop.pc = "idle" /\ loop.iteration >= 1 /\ loop.exit # "invalid")
              => loop.exit = "time")

(* a loop on a system with error_count = MAX_ERRORS and nothing else       *)
(* wrong: it left through the critical check after its first update       *)
C26_Witness ==
    /\ call.op = "continuous_monitoring_loop"
    /\ loop.pc = "idle"
    /\ loop.exit = "critical"
    /\ loop.updates = 1
    /\ system.error_count = MAX_ERRORS
    /\ system.status = "STATUS_NORMAL"
    /\ system.system_active

----------------------------------------------------------------------------
(* C27: count_valid_registers is the number of entries among the first     *)
(* num_registers whose is_valid is true; called right after a scan of the  *)
(* same present system it returns what the scan returned; marking one      *)
(* valid register invalid lowers it by exactly one.                        *)
C27_CountMatchesScan ==
    /\ [][(/\ call.op = "scan_all_registers"
           /\ call.args[1] = "system"
           /\ call.ret >= 0
           /\ call'.op = "count_valid_registers"
           /\ call'.args[1] = "system")
          => call'.ret = call.ret]_vars
    /\ []((call.op = "count_valid_registers" /\ call.args[1] = "system") =>
            call.ret = Cardinality({i \in 0 .. (system.num_registers - 1) :
                                        system.registers[i].is_valid}))
    /\ [](\A i \in 0 .. (system.num_registers - 1) :
            system.registers[i].is_valid =>
                count_valid_registers([system EXCEPT !.registers[i].is_valid = FALSE])
                    = count_valid_registers(system) - 1)

(* a count of one valid entry in a three-register table in which scans     *)
(* have failed entries                                                     *)
C27_Witness ==
    /\ call.op = "count_valid_registers"
    /\ call.args[1] = "system"
    /\ call.ret = 1
    /\ system.num_registers = 3
    /\ system.error_count >= 2
    /\ system.registers[0].is_valid = FALSE

(* C28: the n-th simulated read returns 0x12345678 + ((n mod 16) << 4)     *)
(* whatever the address; with the ranges of init_monitor_system every such *)
(* value is in range, so in a session all four is_valid flags stay true,   *)
(* every scan returns 4 and no scan raises error_count.                    *)
C28_InitRangesAlwaysValid ==
    /\ [](\A i \in 0 .. 3 :
            /\ system.registers[i].is_valid
            /\ 268435456 <= system.registers[i].value
            /\ system.registers[i].value <= 536870912)
    /\ [][(/\ call'.op \in {"scan_all_registers", "update_all_registers"}
           /\ call'.args[1] = "system"
           /\ counter' # counter)
          => /\ \A i \in 0 .. 3 :
                    system'.registers[i].value
                        = 305419896 + (((counter + i + 1) % 16) * 16)
             /\ (call'.op = "scan_all_registers" =>
                    /\ call'.ret = 4
                    /\ system'.error_count = system.error_count)
         ]_vars

(* a scan whose last read was the sixteenth of a cycle: the variation has  *)
(* wrapped to zero                                                         *)
C28_Witness ==
    /\ call.op = "scan_all_registers"
    /\ call.args[1] = "system"
    /\ call.ret = 4
    /\ counter = 0
    /\ system.registers[3].value = 305419896
    /\ system.registers[2].value = 305419896 + 240

----------------------------------------------------------------------------
(* C21: graceful_degradation on a present system never modifies the        *)
(* monitor system; when the level it computes equals the stored            *)
(* degradation_level nothing in the recovery state changes; when it        *)
(* differs the new level is stored and exactly one entry is appended to    *)
(* the error log.                                                          *)
C21_DegradationLogsOnChange ==
    [][(call'.op = "graceful_degradation" /\ call'.args[1] = "system") =>
          LET new_level == C20_Level(C20_Score(system))
              n == Len(recovery_state.error_log)
          IN  /\ system' = system
              /\ (new_level = recovery_state.degradation_level
                    => recovery_state' = recovery_state)
              /\ (new_level # recovery_state.degradation_level
                    => /\ recovery_state'.degradation_level = new_level
                       /\ Len(recovery_state'.error_log) = n + 1
                       /\ SubSeq(recovery_state'.error_log, 1, n)
                              = recovery_state.error_log
                       /\ recovery_state'.log_count = recovery_state.log_count + 1
                       /\ recovery_state'.total_errors
                              = recovery_state.total_errors + 1)
      ]_vars

(* a second change of level: major degradation was logged first, then     *)
(* after a recovery of the temperature the level moved to 1                *)
C21_Witness ==
    /\ call.op = "graceful_degradation"
    /\ call.args[1] = "system"
    /\ recovery_state.degradation_level = 1
    /\ Len(recovery_state.error_log) >= 2
    /\ recovery_state.error_log[1].description = "Major degradation activated"
    /\ recovery_state.error_log[Len(recovery_state.error_log)].description
            = "Minor degradation activated"

----------------------------------------------------------------------------
(* RecoveryCallSpec: one call of an error_recovery.c operation on a        *)
(* caller-built system, with the recovery state as an earlier              *)
(* graceful_degradation may have left it.                                  *)

RecoveryCallSystems ==
    { [init_monitor_system(NULL) EXCEPT
            !.voltage = v, !.temperature = t, !.current = c, !.error_count = e] :
        v \in {MIN_VOLTAGE - 100, MIN_VOLTAGE, 3240, 3270, NOMINAL_VOLTAGE,
               MAX_VOLTAGE, MAX_VOLTAGE + 100},
        t \in {TEMP_NORMAL, TEMP_CRITICAL - 50, TEMP_CRITICAL + 50},
        c \in {-10, 0, NOMINAL_CURRENT, MAX_CURRENT + 100},
        e \in {0, 1, 2, 5} }

PriorRecoveryStates ==
    { graceful_degradation(s, recovery_zero) : s \in RecoveryCallSystems }

RecoveryCallInit ==
    /\ system \in RecoveryCallSystems
    /\ counter = 0
    /\ call = no_call
    /\ loop = loop_idle
    /\ recovery_state \in PriorRecoveryStates

FirstRetryMechanism ==
    /\ call.op = "none"
    /\ ImplementRetryMechanism

FirstGracefulDegradation ==
    /\ call.op = "none"
    /\ GracefulDegradation

ComprehensiveErrorRecovery ==
    \E ptr \in Pointers, error_code \in ErrorCodeInputs :
        \E r \in {comprehensive_error_recovery(deref(ptr), counter, recovery_state,
                                               error_code)} :
            /\ call.op = "none"
            /\ system' = IF ptr = "NULL" THEN system ELSE r.system
            /\ counter' = r.counter
            /\ recovery_state' = r.recovery_state
            /\ call' = [op |-> "comprehensive_error_recovery",
                        args |-> <<ptr, error_code>>, ret |-> r.ret,
                        degradations |-> r.degradations]
            /\ UNCHANGED loop

RecoveryCallNext ==
    \/ FirstRetryMechanism
    \/ FirstGracefulDegradation
    \/ ComprehensiveErrorRecovery

RecoveryCallSpec == RecoveryCallInit /\ [][RecoveryCallNext]_vars

(* the readings after phase 1 and k recovery attempts for error_code *)
RECURSIVE C22_AfterAttempts(_, _, _, _)
C22_AfterAttempts(sys, cnt, error_code, k) ==
    IF k = 0 THEN [system |-> immediate_response(sys, error_code), counter |-> cnt]
    ELSE CHOOSE out \in
            { [system |-> a.system, counter |-> a.counter]
              : a \in { attempt_error_recovery(p.system, p.counter, error_code)
                        : p \in {C22_AfterAttempts(sys, cnt, error_code, k - 1)} } } : TRUE

C22_NoAttemptRecovers(sys, cnt, error_code) ==
    \A k \in 1 .. 3 :
        \E p \in {C22_AfterAttempts(sys, cnt, error_code, k)} :
            determine_system_status(p.system.voltage, p.system.temperature,
                                    p.system.current)
                \notin {"STATUS_NORMAL", "STATUS_WARNING"}

(* C22: a comprehensive_error_recovery on a present system in which none   *)
(* of the three attempts brings the status to NORMAL or WARNING invokes    *)
(* graceful_degradation exactly once, leaves system_active as it was, and  *)
(* returns true exactly when the resulting degradation_level is below 3.   *)
C22_FailedRecoveryDegrades ==
    [][(/\ call'.op = "comprehensive_error_recovery"
        /\ call'.args[1] = "system"
        /\ C22_NoAttemptRecovers(system, counter, call'.args[2]))
       => /\ call'.degradations = 1
          /\ system'.system_active = system.system_active
          /\ system'.system_active
          /\ (call'.ret <=> recovery_state'.degradation_level < 3)
          /\ recovery_state'.degradation_level = C20_Level(C20_Score(system'))
      ]_vars

(* a recovery from ERROR_TEMPERATURE_HIGH that a negative current defeats: *)
(* the system is degraded to level 2 and the call returns true             *)
C22_Witness ==
    /\ call.op = "comprehensive_error_recovery"
    /\ call.args = <<"system", ERROR_TEMPERATURE_HIGH>>
    /\ call.degradations = 1
    /\ call.ret = TRUE
    /\ system.current < 0
    /\ system.system_active
    /\ recovery_state.degradation_level = 2
    /\ recovery_state.error_log[Len(recovery_state.error_log)].retry_count = 4

(* C24: on a present system with current >= 0 and max_retries >= 2         *)
(* implement_retry_mechanism returns true and the readings on return give  *)
(* NORMAL or WARNING; a VOLTAGE_ERROR is recovered as ERROR_VOLTAGE_LOW    *)
(* even when the voltage was too high; with current < 0 it returns false   *)
(* for every max_retries >= 0.                                             *)
C24_RetryRecoverability ==
    [][(call'.op = "implement_retry_mechanism" /\ call'.args[1] = "system") =>
          LET max_retries == call'.args[2]
          IN  /\ (system.current >= 0 /\ max_retries >= 2) =>
                    /\ call'.ret = TRUE
                    /\ determine_system_status(system'.voltage, system'.temperature,
                                               system'.current)
                          \in {"STATUS_NORMAL", "STATUS_WARNING"}
              /\ (system.current < 0 /\ max_retries >= 0) => call'.ret = FALSE
              /\ ((system.voltage < 3000 \/ system.voltage > 3600) /\ max_retries >= 2)
                    => system'.voltage = 3100
              /\ (\E k \in 1 .. Len(call'.trace) :
                        /\ call'.trace[k].status = "STATUS_VOLTAGE_ERROR"
                        /\ call'.trace[k].recoveries = 1)
                    => system'.voltage = 3100
      ]_vars

(* a call with max_retries = 2 that met a critical temperature, then a    *)
(* voltage error, and succeeded at its third and last check                *)
C24_Witness ==
    /\ call.op = "implement_retry_mechanism"
    /\ call.args = <<"system", 2>>
    /\ call.ret = TRUE
    /\ Len(call.trace) = 3
    /\ call.trace[1].status = "STATUS_CRITICAL"
    /\ call.trace[2].status = "STATUS_VOLTAGE_ERROR"
    /\ system.voltage = 3100
    /\ system.temperature = 800
    /\ system.current = 0

(* C30: every voltage inside 3.0 .. 3.6 V gets the marginal penalty of 15, *)
(* so the voltage penalty is never 0 and the health score never exceeds    *)
(* 85; a system with nominal readings is at level 0 only while error_count *)
(* is 0: with error_count 1 the score is 75 and the level 1.               *)
C30_MarginalPenaltyEverywhere ==
    (call.op = "graceful_degradation" /\ call.args[1] = "system") =>
        LET temperature_penalty ==
                IF system.temperature > 850 THEN 40
                ELSE IF system.temperature > 750 THEN 20 ELSE 0
            current_penalty ==
                IF system.current < 50 \/ system.current > 2000 THEN 25 ELSE 0
            rest == 10 * system.error_count + temperature_penalty + current_penalty
            nominal == /\ system.voltage = 3300
                       /\ system.temperature = 250
                       /\ system.current = 500
        IN  /\ health_score(system) <= 85
            /\ \A v \in 3000 .. 3600 :
                  health_score([system EXCEPT !.voltage = v])
                      = (IF 85 - rest < 0 THEN 0 ELSE 85 - rest)
            /\ nominal =>
                  /\ (recovery_state.degradation_level = 0 <=> system.error_count = 0)
                  /\ (system.error_count = 1 =>
                        /\ health_score(system) = 75
                        /\ recovery_state.degradation_level = 1)

(* a nominal system with a single error: score 75, minor degradation       *)
C30_Witness ==
    /\ call.op = "graceful_degradation"
    /\ call.args[1] = "system"
    /\ system.voltage = NOMINAL_VOLTAGE
    /\ system.temperature = TEMP_NORMAL
    /\ system.current = NOMINAL_CURRENT
    /\ system.error_count = 1
    /\ recovery_state.degradation_level = 1
    /\ recovery_state.error_log[Len(recovery_state.error_log)].description
            = "Minor degradation activated"

----------------------------------------------------------------------------
(* LogSpec: the operations that write the error log, in any order, on an   *)
(* empty log and on a log that earlier log_recovery_error calls have       *)
(* filled up to its last slot.                                             *)

MaxAppended == 3       \* log entries after which no further call is made

LogBases == {0, ERROR_LOG_SIZE - 1}

(* the calls lo .. hi of a run of log_recovery_error calls, the k-th with  *)
(* retry_count k; the run is split in halves to keep the evaluation flat   *)
RECURSIVE fill_log(_, _, _)
fill_log(rec, lo, hi) ==
    IF lo > hi THEN rec
    ELSE IF lo = hi
    THEN log_recovery_error(rec, ERROR_TEMPERATURE_HIGH,
                            "Retry mechanism recovery attempt", lo, lo % 2 = 0)
    ELSE CHOOSE out \in
            { fill_log(r, ((lo + hi) \div 2) + 1, hi)
              : r \in {fill_log(rec, lo, (lo + hi) \div 2)} } : TRUE

LogSystems ==
    { [init_monitor_system(NULL) EXCEPT
            !.voltage = x[1], !.temperature = x[2], !.current = x[3],
            !.error_count = x[4]] :
        x \in { <<NOMINAL_VOLTAGE, TEMP_NORMAL, NOMINAL_CURRENT, 0>>,
                <<NOMINAL_VOLTAGE, TEMP_CRITICAL + 50, MAX_CURRENT + 100, 5>>,
                <<MIN_VOLTAGE - 100, TEMP_NORMAL, -10, 1>> } }

LogInit ==
    /\ system \in LogSystems
    /\ counter = 0
    /\ call = no_call
    /\ loop = loop_idle
    /\ recovery_state \in { fill_log(recovery_zero, 1, n) : n \in LogBases }

LogWindowOpen ==
    \E base \in LogBases :
        /\ recovery_state.total_errors >= base
        /\ recovery_state.total_errors < base + MaxAppended

LogEntryInputs ==
    { <<ERROR_TIMEOUT, "Operation timed out", 1, FALSE>>,
      <<ERROR_NONE, "No error", 0, TRUE>> }

LogRecoveryError ==
    \E in \in LogEntryInputs :
        /\ LogWindowOpen
        /\ recovery_state' = log_recovery_error(recovery_state, in[1], in[2], in[3], in[4])
        /\ call' = [op |-> "log_recovery_error", args |-> in, ret |-> FALSE]
        /\ UNCHANGED <<system, counter, loop>>

LogGracefulDegradation ==
    \E ptr \in Pointers :
        /\ LogWindowOpen
        /\ recovery_state' = graceful_degradation(deref(ptr), recovery_state)
        /\ call' = [op |-> "graceful_degradation", args |-> <<ptr>>, ret |-> FALSE]
        /\ UNCHANGED <<system, counter, loop>>

LogRetryMechanism ==
    \E ptr \in Pointers, max_retries \in {0, 2} :
        \E r \in {implement_retry_mechanism(deref(ptr), counter, recovery_state,
                                            max_retries)} :
            /\ LogWindowOpen
            /\ system' = IF ptr = "NULL" THEN system ELSE r.system
            /\ counter' = r.counter
            /\ recovery_state' = r.recovery_state
            /\ call' = [op |-> "implement_retry_mechanism",
                        args |-> <<ptr, max_retries>>, ret |-> r.ret]
            /\ UNCHANGED loop

LogComprehensiveRecovery ==
    \E ptr \in Pointers, error_code \in {ERROR_TEMPERATURE_HIGH, ERROR_COMMUNICATION} :
        \E r \in {comprehensive_error_recovery(deref(ptr), counter, recovery_state,
                                               error_code)} :
            /\ LogWindowOpen
            /\ system' = IF ptr = "NULL" THEN system ELSE r.system
            /\ counter' = r.counter
            /\ recovery_state' = r.recovery_state
            /\ call' = [op |-> "comprehensive_error_recovery",
                        args |-> <<ptr, error_code>>, ret |-> r.ret]
            /\ UNCHANGED loop

LogNext ==
    \/ InitRecoverySystem
    \/ LogRecoveryError
    \/ LogGracefulDegradation
    \/ LogRetryMechanism
    \/ LogComprehensiveRecovery

LogSpec == LogInit /\ [][LogNext]_vars

(* C23: after init_recovery_system and any sequence of log_recovery_error, *)
(* graceful_degradation, implement_retry_mechanism and                     *)
(* comprehensive_error_recovery: 0 <= log_count <= 100; an append to a     *)
(* full log evicts the oldest entry and the remaining entries keep their   *)
(* order with the newest last; successful_recoveries <= total_errors;      *)
(* log_count <= total_errors; degradation_level is in 0..3; degraded_mode  *)
(* holds exactly when degradation_level > 0.                               *)
C23_LogInvariants ==
    /\ [](/\ 0 <= recovery_state.log_count
          /\ recovery_state.log_count <= 100
          /\ recovery_state.log_count = Len(recovery_state.error_log)
          /\ recovery_state.successful_recoveries <= recovery_state.total_errors
          /\ recovery_state.log_count <= recovery_state.total_errors
          /\ recovery_state.degradation_level \in 0 .. 3
          /\ (recovery_state.degraded_mode <=> recovery_state.degradation_level > 0))
    /\ [][call'.op # "init_recovery_system" =>
            LET old == recovery_state.error_log
                new == recovery_state'.error_log
                added == recovery_state'.total_errors - recovery_state.total_errors
                evicted == IF Len(old) + added > 100 THEN Len(old) + added - 100 ELSE 0
            IN  /\ added >= 0
                /\ Len(new) = Len(old) + added - evicted
                /\ \A i \in 1 .. (Len(old) - evicted) : new[i] = old[i + evicted]
         ]_vars
    /\ [][call'.op = "log_recovery_error" =>
            /\ recovery_state'.total_errors = recovery_state.total_errors + 1
            /\ recovery_state'.error_log[Len(recovery_state'.error_log)]
                  = [error_code |-> call'.args[1], description |-> call'.args[2],
                     retry_count |-> call'.args[3],
                     recovery_successful |-> call'.args[4]]
         ]_vars

(* a log_recovery_error on a full log: the entry of the first call is gone, *)
(* that of the second is now the oldest, and the new entry is the last      *)
C23_Witness ==
    /\ call.op = "log_recovery_error"
    /\ recovery_state.log_count = 100
    /\ recovery_state.total_errors = 101
    /\ recovery_state.error_log[1].retry_count = 2
    /\ recovery_state.error_log[99].description = "Operation timed out"
    /\ recovery_state.error_log[100].description = "No error"

====
